---- MODULE Spec2Model ----
(***************************************************************************)
(* Optical fiber light path simulation (OpticalFiber).                     *)
(*                                                                         *)
(* Floating point numbers of the program are fixed-point integers here:    *)
(*   - lengths and coordinates in units of 1/SCALE pixel,                  *)
(*   - unit direction components in units of 1/SCALE,                      *)
(*   - angles in millidegrees,                                             *)
(*   - slider values in units of 1/SliderRes (one encoder tick moves the   *)
(*     slider by encoder_slider_speed = 0.00002 = 1/SliderRes).            *)
(* Integer pixel coordinates (the int(...) of the program) are plain       *)
(* integers.                                                               *)
(***************************************************************************)
EXTENDS Integers, Sequences, FiniteSets, TLC

\* ------------------------------------------------------------------ bounds
\* fixed-point resolution of coordinates and direction components
SCALE == 1000
\* the slider is sampled at k/SliderSamples, k = 0..SliderSamples, and at 0.5
SliderSamples == 58
\* width and height (pixels) of the region the ray is traced in
MinW == 5
MaxW == 6
MinH == 4
MaxH == 5
\* a traced path has at most 2^TraceBits steps
TraceBits == 11
\* frames of the render loop
MaxFrames == 2
\* input events of a run, position changes delivered by the encoder, and
\* wall-clock time in steps of 50 ms
MaxEvents == 2
MaxTicks == 1
MaxClock == 1

\* ------------------------------------------------------- program constants
\* step_size = 2.0
STEP_SIZE == 2
\* encoder_slider_speed = 0.00002, one slider unit
SliderRes == 50000
\* CRITICAL_ANGLE = 12.0 degrees
CRITICAL_ANGLE == 12
\* max_angle = 87 (degrees) of the stripped variant, in tenths of a degree
MAX_ANGLE_STRIPPED == 870
\* max_angle = 89.9 (degrees) of the dual monitor variant, in tenths
MAX_ANGLE_LASER == 899
\* FIBER_TOP = 50, FIBER_LEFT = 50 of the dual monitor variant
FIBER_TOP == 50
FIBER_LEFT == 50
\* SLIDER_HEIGHT = 60
SLIDER_HEIGHT == 60
\* thickness_multiplier 3.7, dash_gap_multiplier 0.3, dash_speed_multiplier 4.9
\* and vibrance_multiplier 1.1 of StrippedFiberTest.py, in tenths
THICKNESS_TENTHS == 37
DASH_GAP_TENTHS == 3
DASH_SPEED_TENTHS == 49
VIBRANCE_TENTHS == 11
\* self.slider_x
SLIDER_X == 50
\* self.encoder_threshold, and maxlen of encoder_position_history
ENCODER_THRESHOLD == 1
HISTORY_MAXLEN == 3
\* the debounce of 0.05 s and the history window of 0.1 s, in steps of 50 ms
DEBOUNCE_TICKS == 1
HISTORY_TICKS == 2

\* ---------------------------------------------------------------- numerics
Abs(a) == IF a < 0 THEN -a ELSE a

Max2(a, b) == IF a >= b THEN a ELSE b

Min2(a, b) == IF a <= b THEN a ELSE b

\* Python's int(): truncation toward zero of a fixed-point number
Trunc(a) == IF a >= 0 THEN a \div SCALE ELSE -((-a) \div SCALE)

\* truncating division of a signed numerator by a positive denominator
DivT(a, b) == IF a >= 0 THEN a \div b ELSE -((-a) \div b)

\* rounding division of a signed numerator by a positive denominator
DivR(a, b) == IF a >= 0 THEN (2 * a + b) \div (2 * b) ELSE -((2 * (-a) + b) \div (2 * b))

\* resolution of the series evaluation below
TRIG == 10000

\* math.radians: millidegrees to radians, in units of 1/TRIG
Radians(mdeg) == DivR(mdeg * 17453, 100000)

\* sine series x - x^3/3! + x^5/5! - ..., for 0 <= x <= pi/4, in units of 1/TRIG
SinSeries(x) ==
    LET x2 == (x * x) \div TRIG
        h4 == TRIG - (x2 \div 72)
        h3 == TRIG - (((x2 * h4) \div TRIG) \div 42)
        h2 == TRIG - (((x2 * h3) \div TRIG) \div 20)
        h1 == TRIG - (((x2 * h2) \div TRIG) \div 6)
    IN  (x * h1) \div TRIG

\* cosine series 1 - x^2/2! + x^4/4! - ..., for 0 <= x <= pi/4, in units of 1/TRIG
CosSeries(x) ==
    LET x2 == (x * x) \div TRIG
        h4 == TRIG - (x2 \div 56)
        h3 == TRIG - (((x2 * h4) \div TRIG) \div 30)
        h2 == TRIG - (((x2 * h3) \div TRIG) \div 12)
        h1 == TRIG - (((x2 * h2) \div TRIG) \div 2)
    IN  h1

\* math.sin of an angle in millidegrees within [-90, 90] degrees, in units of 1/SCALE
Sin(mdeg) ==
    LET a == Abs(mdeg)
        v == IF a <= 45000 THEN SinSeries(Radians(a)) ELSE CosSeries(Radians(90000 - a))
        s == DivR(v * SCALE, TRIG)
    IN  IF mdeg < 0 THEN -s ELSE s

\* math.cos of an angle in millidegrees within [-90, 90] degrees, in units of 1/SCALE
Cos(mdeg) ==
    LET a == Abs(mdeg)
        v == IF a <= 45000 THEN CosSeries(Radians(a)) ELSE SinSeries(Radians(90000 - a))
    IN  DivR(v * SCALE, TRIG)

\* arctangent polynomial z (a1 + a3 z^2 + a5 z^4 + a7 z^6 + a9 z^8) for
\* 0 <= z <= 1, argument and result (radians) in units of 1/TRIG
AtanSeries(z) ==
    LET z2 == (z * z) \div TRIG
        h4 == 851 - ((z2 * 208) \div TRIG)
        h3 == 1801 - ((z2 * h4) \div TRIG)
        h2 == 3303 - ((z2 * h3) \div TRIG)
        h1 == 9999 - ((z2 * h2) \div TRIG)
    IN  (z * h1) \div TRIG

\* math.degrees: radians in units of 1/TRIG to millidegrees
Degrees(rad) == DivR(rad * 57296, TRIG)

\* math.degrees(math.atan2(ady, adx)) for ady >= 0, adx >= 0, in millidegrees
Atan2Deg(ady, adx) ==
    IF ady = 0 THEN 0
    ELSE IF ady <= adx THEN Degrees(AtanSeries(DivR(ady * TRIG, adx)))
    ELSE 90000 - Degrees(AtanSeries(DivR(adx * TRIG, ady)))

\* math.sqrt of a non-negative integer below 2^28, rounded down, bit by bit
RECURSIVE SqrtBits(_, _, _)
SqrtBits(n, r, b) ==
    IF b = 0 THEN r
    ELSE IF (r + b) * (r + b) <= n THEN SqrtBits(n, r + b, b \div 2)
         ELSE SqrtBits(n, r, b \div 2)

Sqrt(n) == SqrtBits(n, 0, 8192)

\* ------------------------------------------------------------------- state
VARIABLES
    variant,        \* "stripped" (StrippedFiberTest.py) or "laser" (fiberTest_laser.py)
    screen_width,   \* self.screen_width / SCREEN_WIDTH
    screen_height,  \* self.screen_height / SCREEN_HEIGHT
    slider_value,   \* self.slider_value, in units of 1/SliderRes
    trace,          \* the locals of calculate_light_path
    tpc,            \* position of calculate_light_path: "loop" or "done"
    time,           \* self.time, in frames
    global_dash_offset, \* self.global_dash_offset, in units of 1/SCALE pixel
    effect_toggles, \* self.effect_toggles
    style,          \* the thickness, dash gap, dash speed and vibrance multipliers
    path,           \* what calculate_light_path returned to run()
    pc,             \* position of the render thread in run()
    draw_i,         \* the loop index of draw_light_path, from 1
    cumulative_distance, \* cumulative_distance of draw_light_path
    tier,           \* light_color and intensity of draw_light_path
    call,           \* the arguments of the last beam call of the segment loop
    draws,          \* the pygame.draw calls of the last step of draw_light_path
    dashes,         \* the dash intervals stroked by the last step
    running,        \* self.running
    dragging,       \* self.dragging
    encoder_enabled, \* self.encoder_enabled
    device_open,    \* the encoder device is attached and delivers position changes
    encoder_accumulator, \* self.encoder_accumulator, in encoder ticks
    encoder_position_history, \* self.encoder_position_history
    history_is_deque, \* encoder_position_history is still the deque of __init__
    encoder_lock,   \* holder of self.encoder_lock: "free", "render" or "callback"
    last_encoder_update, \* self.last_encoder_update, in steps of 50 ms
    clock,          \* time.time(), in steps of 50 ms
    cpc,            \* position of on_encoder_position_change
    cb,             \* positionChange and current_time of the running callback
    wpc,            \* position of encoder_thread_worker
    events_left,    \* input events the user may still produce
    ticks_left,     \* position changes the encoder may still deliver
    memo,           \* history: every result of calculate_light_path so far, with
                    \* the time, dash offset and clock of its frame
    last_move,      \* history: the slider value last asked for, before clamping
    dragging_thickness, \* self.dragging_thickness (fiberTest_laser.py)
    dragging_dash_gap,  \* self.dragging_dash_gap
    dragging_dash_speed, \* self.dragging_dash_speed
    dragging_vibrance,  \* self.dragging_vibrance
    thickness_value,    \* self.thickness_value, in units of 1/SliderRes
    dash_gap_value,     \* self.dash_gap_value
    dash_speed_value,   \* self.dash_speed_value
    vibrance_value,     \* self.vibrance_value
    button,             \* the left mouse button as the user holds it: "up" or "down"
    delivered,          \* history: the sum of the positionChange of every call of
                        \* on_encoder_position_change so far
    consumed            \* history: the sum of the used_accumulator of every
                        \* update_slider_from_encoder so far

inputVars == <<variant, screen_width, screen_height, slider_value>>
traceVars == <<trace, tpc>>
animVars == <<time, global_dash_offset>>
drawVars == <<draw_i, cumulative_distance, tier, call, draws, dashes>>
frameVars == <<running, dragging, encoder_enabled, device_open, encoder_accumulator,
               encoder_position_history, history_is_deque, encoder_lock,
               last_encoder_update, clock, cpc, cb, wpc, events_left, ticks_left, memo,
               last_move>>

uiVars == <<dragging_thickness, dragging_dash_gap, dragging_dash_speed, dragging_vibrance,
            thickness_value, dash_gap_value, dash_speed_value, vibrance_value, button>>

tickVars == <<delivered, consumed>>

vars == <<inputVars, traceVars, animVars, effect_toggles, style, path, pc, drawVars,
          frameVars, uiVars, tickVars>>

\* ------------------------------------------------------------------ tracer
\* the region the ray is traced in, in pixels
Geometry(v, w, h) ==
    IF v = "stripped"
    THEN [left |-> 0, right |-> w, top |-> 0, bottom |-> h, start_y |-> h \div 2]
    ELSE LET slider_y == h - SLIDER_HEIGHT - 20
             fiber_bottom == slider_y - 50
             fiber_height == fiber_bottom - FIBER_TOP
         IN  [left |-> FIBER_LEFT, right |-> w - 50, top |-> FIBER_TOP,
              bottom |-> fiber_bottom, start_y |-> FIBER_TOP + fiber_height \div 2]

\* a slider range that reaches the vertical, 90.0 degrees
MaxAngleTenths_vertical(v) == 900

\* max_angle of get_angle_from_slider, in tenths of a degree
MaxAngleTenths(v) == IF v = "stripped" THEN MAX_ANGLE_STRIPPED ELSE MAX_ANGLE_LASER

\* a mapping of the slider onto [0, max_angle] instead of [-max_angle, max_angle]
get_angle_unsigned(sv, v) == DivR(sv * MaxAngleTenths(v), SliderRes \div 100)

\* get_angle_from_slider: (slider_value - 0.5) * 2 * max_angle, in millidegrees
get_angle_from_slider(sv, v) ==
    DivR((sv - SliderRes \div 2) * (2 * MaxAngleTenths(v)), SliderRes \div 100)

\* a tracer that does not reset total_distance: it goes on from the total
\* of the previous computation
TraceStart_stale(sv, v, g) ==
    LET angle == get_angle_from_slider(sv, v)
    IN  [x |-> g.left * SCALE, y |-> g.start_y * SCALE,
         dx |-> Cos(angle), dy |-> Sin(angle),
         path_points |-> << <<g.left, g.start_y>> >>,
         bounce_angles |-> << >>,
         bounce_positions |-> << >>,
         total_distance |-> path.total_distance]

\* calculate_light_path up to its loop: start point and initial direction
TraceStart(sv, v, g) ==
    LET angle == get_angle_from_slider(sv, v)
    IN  [x |-> g.left * SCALE, y |-> g.start_y * SCALE,
         dx |-> Cos(angle), dy |-> Sin(angle),
         path_points |-> << <<g.left, g.start_y>> >>,
         bounce_angles |-> << >>,
         bounce_positions |-> << >>,
         total_distance |-> 0]

\* a loop that stops two steps short of the right edge
TraceRunning_short(t, g) == t.x < (g.right - 2 * STEP_SIZE) * SCALE

\* the loop condition of calculate_light_path
TraceRunning(t, g) == t.x < g.right * SCALE

\* a top wall that lets the ray through
ReflectTop_through(moved_y, top) == moved_y

\* the mirror formula of the top wall: next_y = top + (top - next_y)
ReflectTop(moved_y, top) == top + (top - moved_y)

\* the mirror formula of the bottom wall: next_y = bottom - (next_y - bottom)
ReflectBottom(moved_y, bottom) == bottom - (moved_y - bottom)

\* the angle between the ray and the normal of the wall
IncidentAngle_normal(dx, dy) == 90000 - Atan2Deg(Abs(dy), Abs(dx))

\* incident_angle = math.degrees(math.atan2(abs(dy), abs(dx))), in millidegrees
IncidentAngle(dx, dy) == Atan2Deg(Abs(dy), Abs(dx))

\* a bounce recorded at the integer pixel of current_x
BouncePosition_int(current_x, wall) == <<Trunc(current_x) * SCALE, wall>>

\* the entry of bounce_positions: (current_x, wall), current_x before the step
BouncePosition(current_x, wall) == <<current_x, wall>>

\* the entry of path_points: (int(current_x), int(current_y))
PathPoint(x, y) == <<Trunc(x), Trunc(y)>>

\* segment_distance: from path_points[-2] (integer pixels) to the current position
SegmentDistance(x, y, prev_point) ==
    LET ddx == x - prev_point[1] * SCALE
        ddy == y - prev_point[2] * SCALE
    IN  Sqrt(ddx * ddx + ddy * ddy)

\* the step moves the ray onto or across a wall
TraceHits(t, g) ==
    LET moved_y == t.y + t.dy * STEP_SIZE
    IN  moved_y <= g.top * SCALE \/ moved_y >= g.bottom * SCALE

\* the body of the loop of calculate_light_path
TraceBody(t, g) ==
    LET top == g.top * SCALE
        bottom == g.bottom * SCALE
        next_x == t.x + t.dx * STEP_SIZE
        moved_y == t.y + t.dy * STEP_SIZE
        hitTop == moved_y <= top
        hitBottom == ~hitTop /\ moved_y >= bottom
        next_y == IF hitTop THEN ReflectTop(moved_y, top)
                  ELSE IF hitBottom THEN ReflectBottom(moved_y, bottom)
                  ELSE moved_y
        prev_point == t.path_points[Len(t.path_points)]
    IN  [x |-> next_x, y |-> next_y,
         dx |-> t.dx,
         dy |-> IF hitTop \/ hitBottom THEN -t.dy ELSE t.dy,
         path_points |-> Append(t.path_points, PathPoint(next_x, next_y)),
         bounce_angles |-> IF hitTop \/ hitBottom
                           THEN Append(t.bounce_angles, IncidentAngle(t.dx, t.dy))
                           ELSE t.bounce_angles,
         bounce_positions |-> IF hitTop THEN Append(t.bounce_positions, BouncePosition(t.x, top))
                              ELSE IF hitBottom
                              THEN Append(t.bounce_positions, BouncePosition(t.x, bottom))
                              ELSE t.bounce_positions,
         total_distance |-> t.total_distance
                            + SegmentDistance(next_x, next_y, prev_point)]

\* path_points[-1]
LastPoint(t) == t.path_points[Len(t.path_points)]

\* a loop that retries a wall hit without committing anything
TraceStep_retry(t, g) == IF TraceHits(t, g) THEN t ELSE TraceBody(t, g)

\* a loop whose bounces leave the vertical direction as it was
TraceStep_straight(t, g) == [TraceBody(t, g) EXCEPT !.dy = t.dy]

\* one iteration of the loop of calculate_light_path
TraceStep(t, g) == TraceBody(t, g)

\* ---------------------------------------------------------------- renderer
\* multipliers, intensities and pulses are in units of 1/SCALE

\* math.sin of an angle x >= 0 in radians (units of 1/TRIG), in units of 1/SCALE
SinRad(x) ==
    LET t == x % 62832
        m == DivR(t * 5730, 1000)
    IN  IF m <= 90000 THEN Sin(m)
        ELSE IF m <= 270000 THEN Sin(180000 - m)
        ELSE Sin(m - 360000)

WHITE == <<255, 255, 255>>
RED == <<255, 0, 0>>
GREEN == <<0, 255, 0>>
YELLOW == <<255, 255, 0>>
ORANGE == <<255, 165, 0>>

\* min(255, int(c * f)) for a channel c >= 0 and a factor f in units of 1/SCALE
Channel(c, f) == Min2(255, (c * f) \div SCALE)

\* tuple(min(255, int(c * f)) for c in color)
ScaleColor(color, f) == <<Channel(color[1], f), Channel(color[2], f), Channel(color[3], f)>>

\* tuple(int(c * f) for c in color), without the cap at 255
ScaleColorRaw(color, f) ==
    <<(color[1] * f) \div SCALE, (color[2] * f) \div SCALE, (color[3] * f) \div SCALE>>

\* apply_vibrance: min(255, int(c * vibrance_multiplier)) on every channel
apply_vibrance(color, self) == ScaleColor(color, self.vibrance_multiplier)

\* pygame.draw.line(screen, color, p1, p2, width)
Line(layer, color, p1, p2, width) ==
    [op |-> "line", layer |-> layer, color |-> color, p1 |-> p1, p2 |-> p2, width |-> width]

\* pygame.draw.circle(screen, color, center, radius)
Circle(layer, color, center, radius) ==
    [op |-> "circle", layer |-> layer, color |-> color, p1 |-> center, p2 |-> center,
     width |-> radius]

\* int(k * thickness_multiplier) for k given in tenths
Width(k10, thickness_multiplier) == (k10 * thickness_multiplier) \div (10 * SCALE)

\* the glow colour of a tier colour at brightness f, before vibrance
GlowColor(base_color, f) ==
    IF base_color = GREEN THEN <<0, Channel(150, f), 0>>
    ELSE IF base_color = YELLOW THEN <<Channel(200, f), Channel(200, f), 0>>
    ELSE <<Channel(200, f), Channel(100, f), 0>>

\* math.sqrt(dx * dx + dy * dy) of integer pixel differences, in units of 1/SCALE
BeamLength(start_pos, end_pos) ==
    LET dx == end_pos[1] - start_pos[1]
        dy == end_pos[2] - start_pos[2]
    IN  Sqrt((dx * dx + dy * dy) * SCALE * SCALE)

\* int(start + norm * distance): the pixel at a distance along the beam
PointAt(start_pos, end_pos, beam_length, distance) ==
    LET dx_norm == DivR((end_pos[1] - start_pos[1]) * SCALE * SCALE, beam_length)
        dy_norm == DivR((end_pos[2] - start_pos[2]) * SCALE * SCALE, beam_length)
    IN  <<Trunc(start_pos[1] * SCALE + DivR(dx_norm * distance, SCALE)),
          Trunc(start_pos[2] * SCALE + DivR(dy_norm * distance, SCALE))>>

\* the three glow layers of draw_solid_beam and of a dash (widths 12, 8, 5)
\* or of the faded base (widths 8, 5, 3), in tenths
GlowLayers(layer, glow_color, p1, p2, w1, w2, w3, self) ==
    <<Line(layer, glow_color, p1, p2, Width(w1, self.thickness_multiplier)),
      Line(layer, ScaleColor(glow_color, (12 * SCALE) \div 10), p1, p2,
           Width(w2, self.thickness_multiplier)),
      Line(layer, ScaleColor(glow_color, (15 * SCALE) \div 10), p1, p2,
           Width(w3, self.thickness_multiplier))>>

\* draw_faded_solid_base
draw_faded_solid_base(start_pos, end_pos, base_color, core_color, pulse, intensity, self) ==
    LET fade_intensity == DivR(intensity * 4, 10)
        fade_pulse == DivR(pulse * 4, 10)
        glow == IF self.effect_toggles.gradient_glow
                THEN GlowLayers("faded_glow",
                                apply_vibrance(GlowColor(base_color, fade_pulse), self),
                                start_pos, end_pos, 80, 50, 30, self)
                ELSE << >>
        core == IF self.effect_toggles.laser_core_halo
                THEN Line("faded_core", ScaleColor(core_color, fade_intensity),
                          start_pos, end_pos,
                          Max2(1, Width(15, self.thickness_multiplier)))
                ELSE Line("faded_core",
                          apply_vibrance(ScaleColor(base_color, fade_intensity), self),
                          start_pos, end_pos,
                          Max2(1, Width(20, self.thickness_multiplier)))
    IN  glow \o <<core>>

\* dash_length = 10 * thickness_multiplier
DashLength(self) == 10 * self.thickness_multiplier

\* total_pattern_length = dash_length + 50 * thickness_multiplier * dash_gap_multiplier
PatternLength(self) ==
    DashLength(self) + DivR(50 * self.thickness_multiplier * self.dash_gap_multiplier, SCALE)

\* an offset that restarts the pattern at the start of every segment
AnimationOffset_local(cumulative, self) ==
    IF self.effect_toggles.animated_properties
    THEN (-self.global_dash_offset) % PatternLength(self)
    ELSE 0

\* animation_offset of draw_pulsing_segments
AnimationOffset(cumulative, self) ==
    IF self.effect_toggles.animated_properties
    THEN (-self.global_dash_offset + cumulative) % PatternLength(self)
    ELSE cumulative % PatternLength(self)

\* a bound that counts the whole patterns in the beam only
NumPatterns_whole(beam_length, self) == beam_length \div PatternLength(self)

\* num_patterns = int((beam_length + total_pattern_length) / total_pattern_length) + 2
NumPatterns(beam_length, self) ==
    (beam_length + PatternLength(self)) \div PatternLength(self) + 2

\* the particles of one dash: circles at (p + 0.5) / num_particles of its length
DashParticles(i, d, from, to, dash_intensity, self) ==
    LET dash_actual_length == to - from
        num_particles == Max2(1, dash_actual_length \div (8 * SCALE))
        particle(p) ==
            LET particle_distance ==
                    from + DivR((2 * p + 1) * dash_actual_length, 2 * num_particles)
                sparkle == IF self.effect_toggles.animated_properties
                           THEN (8 * SCALE) \div 10
                                + DivR(2 * SinRad((self.time * TRIG) \div 10
                                                  + (2 * p + i) * TRIG), 10)
                           ELSE SCALE
                particle_intensity == DivR(sparkle * dash_intensity, SCALE)
                particle_color ==
                    IF self.effect_toggles.laser_core_halo
                    THEN ScaleColor(d.core_color, particle_intensity)
                    ELSE apply_vibrance(ScaleColor(d.base_color, particle_intensity), self)
            IN  Circle("particle", particle_color,
                       PointAt(d.start_pos, d.end_pos, d.beam_length, particle_distance),
                       Max2(1, Width(10, self.thickness_multiplier)))
    IN  IF self.effect_toggles.particle_effects /\ dash_actual_length > 5 * SCALE
        THEN [p \in 1..num_particles |-> particle(p - 1)]
        ELSE << >>

\* the draw calls of dash i, clamped to [from, to] on the beam
DashDraws(i, d, from, to, self) ==
    LET dash_start == PointAt(d.start_pos, d.end_pos, d.beam_length, from)
        dash_end == PointAt(d.start_pos, d.end_pos, d.beam_length, to)
        brightness_variation ==
            (9 * SCALE) \div 10
            + DivR(SinRad((self.time * TRIG) \div 20 + (i * 8 * TRIG) \div 10), 10)
        dash_intensity == IF self.effect_toggles.animated_properties
                          THEN DivR(d.intensity * brightness_variation, SCALE)
                          ELSE d.intensity
        glow == IF self.effect_toggles.gradient_glow
                THEN GlowLayers("dash_glow",
                                apply_vibrance(GlowColor(d.base_color,
                                                         DivR(d.pulse * dash_intensity, SCALE)),
                                               self),
                                dash_start, dash_end, 120, 80, 50, self)
                ELSE << >>
        core == IF self.effect_toggles.laser_core_halo
                THEN Line("dash_core", ScaleColor(d.core_color, dash_intensity),
                          dash_start, dash_end,
                          Max2(1, Width(20, self.thickness_multiplier)))
                ELSE Line("dash_core",
                          apply_vibrance(ScaleColor(d.base_color, dash_intensity), self),
                          dash_start, dash_end,
                          Max2(1, Width(30, self.thickness_multiplier)))
    IN  glow \o <<core>> \o DashParticles(i, d, from, to, dash_intensity, self)

\* the loop over the candidate dashes i, i + 1, ... of draw_pulsing_segments
RECURSIVE DashLoop(_, _, _)
DashLoop(i, d, self) ==
    LET dash_start_distance == i * d.total_pattern_length - d.animation_offset
        dash_end_distance == dash_start_distance + d.dash_length
        from == Max2(0, dash_start_distance)
        to == Min2(d.beam_length, dash_end_distance)
        rest == DashLoop(i + 1, d, self)
    IN  IF i >= d.num_patterns THEN [draws |-> << >>, dashes |-> << >>]
        ELSE IF dash_end_distance < 0 THEN rest
        ELSE IF dash_start_distance > d.beam_length THEN [draws |-> << >>, dashes |-> << >>]
        ELSE IF from >= to THEN rest
        ELSE [draws |-> DashDraws(i, d, from, to, self) \o rest.draws,
              dashes |-> <<[i |-> i, start |-> dash_start_distance, from |-> from,
                            to |-> to]>> \o rest.dashes]

\* the first statement of draw_pulsing_segments: the faded base when
\* solid_with_dashes is enabled
FadedBase(start_pos, end_pos, base_color, core_color, pulse, intensity, self) ==
    IF self.effect_toggles.solid_with_dashes
    THEN draw_faded_solid_base(start_pos, end_pos, base_color, core_color, pulse,
                               intensity, self)
    ELSE << >>

\* draw_pulsing_segments: the draw calls issued and the dash intervals stroked
draw_pulsing_segments(start_pos, end_pos, base_color, core_color, pulse, intensity, cumulative, self) ==
    LET base == FadedBase(start_pos, end_pos, base_color, core_color, pulse, intensity, self)
        beam_length == BeamLength(start_pos, end_pos)
        d == [start_pos |-> start_pos, end_pos |-> end_pos, base_color |-> base_color,
              core_color |-> core_color, pulse |-> pulse, intensity |-> intensity,
              beam_length |-> beam_length,
              dash_length |-> DashLength(self),
              total_pattern_length |-> PatternLength(self),
              animation_offset |-> AnimationOffset(cumulative, self),
              num_patterns |-> NumPatterns(beam_length, self)]
        loop == DashLoop(0, d, self)
    IN  IF beam_length = 0
        THEN [draws |-> base, dashes |-> << >>]
        ELSE [draws |-> base \o loop.draws, dashes |-> loop.dashes]

\* the sparkles of draw_solid_beam, for beams longer than 50 pixels
SolidSparkles(start_pos, end_pos, base_color, core_color, beam_length, self) ==
    LET num_sparkles == Max2(1, beam_length \div (100 * SCALE))
        sparkle(i) ==
            LET even == DivR((2 * i + 1) * SCALE, 2 * num_sparkles)
                t == IF self.effect_toggles.animated_properties
                     THEN even + DivR(SinRad((self.time * 3 * TRIG) \div 10 + i * TRIG), 10)
                     ELSE even
                tc == Max2(0, Min2(SCALE, t))
                sparkle_intensity ==
                    IF self.effect_toggles.animated_properties
                    THEN SCALE \div 2
                         + DivR(SinRad((self.time * 2 * TRIG) \div 10 + 2 * i * TRIG), 2)
                    ELSE SCALE
                sparkle_color ==
                    IF self.effect_toggles.laser_core_halo
                    THEN ScaleColor(core_color, sparkle_intensity)
                    ELSE apply_vibrance(ScaleColor(base_color, sparkle_intensity), self)
            IN  Circle("sparkle", sparkle_color,
                       <<Trunc(start_pos[1] * SCALE + tc * (end_pos[1] - start_pos[1])),
                         Trunc(start_pos[2] * SCALE + tc * (end_pos[2] - start_pos[2]))>>,
                       Max2(1, Width(10, self.thickness_multiplier)))
    IN  IF self.effect_toggles.particle_effects /\ beam_length > 50 * SCALE
        THEN [i \in 1..num_sparkles |-> sparkle(i - 1)]
        ELSE << >>

\* draw_solid_beam
draw_solid_beam(start_pos, end_pos, base_color, core_color, pulse, beam_length, self) ==
    LET glow == IF self.effect_toggles.gradient_glow
                THEN GlowLayers("glow", apply_vibrance(GlowColor(base_color, pulse), self),
                                start_pos, end_pos, 120, 80, 50, self)
                ELSE << >>
        core == IF self.effect_toggles.laser_core_halo
                THEN Line("core", core_color, start_pos, end_pos,
                          Max2(1, Width(20, self.thickness_multiplier)))
                ELSE Line("core", apply_vibrance(base_color, self), start_pos, end_pos,
                          Max2(1, Width(30, self.thickness_multiplier)))
    IN  glow \o <<core>>
        \o SolidSparkles(start_pos, end_pos, base_color, core_color, beam_length, self)

\* draw_laser_beam: nothing for start_pos = end_pos and nothing when
\* pulsing_segments is enabled, else the solid beam
draw_laser_beam(start_pos, end_pos, base_color, intensity, self) ==
    LET beam_length == BeamLength(start_pos, end_pos)
        pulse == IF self.effect_toggles.animated_properties
                 THEN (8 * SCALE) \div 10
                      + DivR(2 * SinRad((self.time * TRIG) \div 10) * intensity, 10 * SCALE)
                 ELSE intensity
        core_color == IF self.effect_toggles.laser_core_halo
                      THEN apply_vibrance(ScaleColor(WHITE, pulse), self)
                      ELSE apply_vibrance(base_color, self)
    IN  IF start_pos = end_pos THEN << >>
        ELSE IF self.effect_toggles.pulsing_segments THEN << >>
        ELSE draw_solid_beam(start_pos, end_pos, base_color, core_color, pulse,
                             beam_length, self)

\* current_angle = abs(math.degrees(self.get_angle_from_slider())), signed by mistake
CurrentAngle_signed(sv, v) == get_angle_from_slider(sv, v)

\* current_angle = abs(math.degrees(self.get_angle_from_slider())), in millidegrees
CurrentAngle(sv, v) == Abs(get_angle_from_slider(sv, v))

\* light_color and intensity of draw_light_path for an angle in millidegrees
LightTier(current_angle) ==
    IF current_angle < CRITICAL_ANGLE * 1000
    THEN [light_color |-> GREEN, intensity |-> SCALE]
    ELSE IF current_angle < (CRITICAL_ANGLE + 10) * 1000
    THEN [light_color |-> YELLOW, intensity |-> (8 * SCALE) \div 10]
    ELSE [light_color |-> ORANGE, intensity |-> (6 * SCALE) \div 10]

\* bounce_color of draw_light_path for an incidence angle in millidegrees
BounceColor(incident_angle) ==
    IF incident_angle < CRITICAL_ANGLE * 1000 THEN GREEN
    ELSE IF incident_angle < (CRITICAL_ANGLE + 10) * 1000 THEN YELLOW
    ELSE RED

\* segment_length of draw_light_path
SegmentLength(path_points, i) == BeamLength(path_points[i], path_points[i + 1])

\* the pulse argument draw_light_path passes to draw_pulsing_segments
SegmentPulse(self) ==
    IF self.effect_toggles.animated_properties
    THEN (8 * SCALE) \div 10 + DivR(2 * SinRad((self.time * TRIG) \div 10), 10)
    ELSE SCALE

\* the body of the segment loop of draw_light_path for segment i (from 1)
DrawSegment(path_points, i, light, cumulative, self) ==
    IF self.effect_toggles.pulsing_segments
    THEN draw_pulsing_segments(path_points[i], path_points[i + 1], light.light_color,
                               WHITE, SegmentPulse(self), light.intensity,
                               cumulative, self)
    ELSE [draws |-> draw_laser_beam(path_points[i], path_points[i + 1], light.light_color,
                                    light.intensity, self),
          dashes |-> << >>]

\* the body of the bounce loop of draw_light_path for bounce i (from 1)
DrawBounce(bounce_pos, incident_angle, i, self) ==
    LET bounce_color == BounceColor(incident_angle)
        bounce_pulse == IF self.effect_toggles.animated_properties
                        THEN (7 * SCALE) \div 10
                             + DivR(3 * SinRad((self.time * 15 * TRIG) \div 100
                                               + ((i - 1) * 5 * TRIG) \div 10), 10)
                        ELSE SCALE
        center == <<Trunc(bounce_pos[1]), Trunc(bounce_pos[2])>>
        glow == IF self.effect_toggles.gradient_glow
                THEN <<Circle("bounce_burst",
                              apply_vibrance(ScaleColorRaw(bounce_color,
                                                           DivR(3 * bounce_pulse, 10)), self),
                              center, (12 * bounce_pulse) \div SCALE),
                       Circle("bounce_ring",
                              apply_vibrance(ScaleColorRaw(bounce_color,
                                                           DivR(6 * bounce_pulse, 10)), self),
                              center, (8 * bounce_pulse) \div SCALE)>>
                ELSE << >>
        core == IF self.effect_toggles.laser_core_halo
                THEN Circle("bounce_core",
                            apply_vibrance(ScaleColor(bounce_color, bounce_pulse), self),
                            center, (4 * bounce_pulse) \div SCALE)
                ELSE Circle("bounce_core", apply_vibrance(bounce_color, self), center, 3)
    IN  glow \o <<core>>

\* the laser source marker of draw_light_path
DrawSource(start_pos, self) ==
    LET source_pulse == IF self.effect_toggles.animated_properties
                        THEN (8 * SCALE) \div 10
                             + DivR(2 * SinRad((self.time * 2 * TRIG) \div 10), 10)
                        ELSE SCALE
        glow == IF self.effect_toggles.gradient_glow
                THEN <<Circle("source_glow",
                              apply_vibrance(<<0, (100 * source_pulse) \div SCALE, 0>>, self),
                              start_pos, (15 * source_pulse) \div SCALE)>>
                ELSE << >>
        core == IF self.effect_toggles.laser_core_halo
                THEN <<Circle("source_core", apply_vibrance(WHITE, self), start_pos, 8),
                       Circle("source_core", apply_vibrance(GREEN, self), start_pos, 6),
                       Circle("source_core", apply_vibrance(<<0, 255, 0>>, self),
                              start_pos, 3)>>
                ELSE <<Circle("source_core", apply_vibrance(GREEN, self), start_pos, 5)>>
    IN  glow \o core

\* the laser exit marker of draw_light_path
DrawExit(end_point, light_color, self) ==
    LET exit_pulse == IF self.effect_toggles.animated_properties
                      THEN (9 * SCALE) \div 10
                           + DivR(SinRad((self.time * 25 * TRIG) \div 100), 10)
                      ELSE SCALE
        glow == IF self.effect_toggles.gradient_glow
                THEN <<Circle("exit_glow",
                              apply_vibrance(ScaleColorRaw(light_color,
                                                           DivR(3 * exit_pulse, 10)), self),
                              end_point, (12 * exit_pulse) \div SCALE)>>
                ELSE << >>
        core == IF self.effect_toggles.laser_core_halo
                THEN <<Circle("exit_core", apply_vibrance(WHITE, self), end_point, 8),
                       Circle("exit_core", apply_vibrance(light_color, self), end_point, 6)>>
                ELSE <<Circle("exit_core", apply_vibrance(light_color, self), end_point, 5)>>
    IN  glow \o core

\* ------------------------------------------------- whole calls of the tracer
\* the while loop of calculate_light_path run to its end, at most 2^k
\* iterations at level k
RECURSIVE TraceRun(_, _, _)
TraceRun(t, g, k) ==
    IF ~TraceRunning(t, g) THEN t
    ELSE IF k = 0 THEN TraceStep(t, g)
    ELSE TraceRun(TraceRun(t, g, k - 1), g, k - 1)

\* calculate_light_path: path_points, total_distance, bounce_angles, bounce_positions
calculate_light_path(sv, v, g) ==
    LET t == TraceRun(TraceStart(sv, v, g), g, TraceBits)
    IN  [path_points |-> t.path_points, total_distance |-> t.total_distance,
         bounce_angles |-> t.bounce_angles, bounce_positions |-> t.bounce_positions]

\* ------------------------------------------------------------- construction
\* self.effect_toggles as set by __init__
InitialToggles(v) ==
    [gradient_glow |-> TRUE, animated_properties |-> TRUE, laser_core_halo |-> TRUE,
     particle_effects |-> TRUE, pulsing_segments |-> (v = "stripped"),
     solid_with_dashes |-> (v = "stripped")]

\* the multipliers: hardcoded in StrippedFiberTest.py, computed from the four
\* style sliders (all at 0.5 after __init__) in fiberTest_laser.py
InitialStyle(v) ==
    IF v = "stripped"
    THEN [thickness_multiplier |-> (THICKNESS_TENTHS * SCALE) \div 10,
          dash_gap_multiplier |-> (DASH_GAP_TENTHS * SCALE) \div 10,
          dash_speed_multiplier |-> (DASH_SPEED_TENTHS * SCALE) \div 10,
          vibrance_multiplier |-> (VIBRANCE_TENTHS * SCALE) \div 10]
    ELSE [thickness_multiplier |-> SCALE \div 2 + (45 * (SCALE \div 2)) \div 10,
          dash_gap_multiplier |-> (2 * SCALE) \div 10 + (18 * (SCALE \div 2)) \div 10,
          dash_speed_multiplier |-> SCALE \div 10 + (99 * (SCALE \div 2)) \div 10,
          vibrance_multiplier |-> SCALE \div 2 + (25 * (SCALE \div 2)) \div 10]

\* the values a run starts without: no path computed, nothing drawn
NoPath ==
    [path_points |-> << >>, total_distance |-> 0, bounce_angles |-> << >>,
     bounce_positions |-> << >>]

NoTier == [light_color |-> << >>, intensity |-> 0]

NoCall == [start_pos |-> << >>, end_pos |-> << >>, base_color |-> << >>, intensity |-> 0,
           cumulative_distance |-> 0]

\* the attributes of self the renderer reads
Self ==
    [effect_toggles |-> effect_toggles,
     thickness_multiplier |-> style.thickness_multiplier,
     dash_gap_multiplier |-> style.dash_gap_multiplier,
     vibrance_multiplier |-> style.vibrance_multiplier,
     time |-> time,
     global_dash_offset |-> global_dash_offset]


\* the values of a run without encoder: nothing attached, nothing pending
NoChange == [change |-> 0, time |-> 0]

NoMove == [source |-> "none", requested |-> SliderRes \div 2]

NoEncoder ==
    /\ running = TRUE
    /\ dragging = FALSE
    /\ encoder_enabled = FALSE
    /\ device_open = FALSE
    /\ encoder_accumulator = 0
    /\ encoder_position_history = << >>
    /\ history_is_deque = TRUE
    /\ encoder_lock = "free"
    /\ last_encoder_update = 0
    /\ clock = 0
    /\ cpc = "idle"
    /\ cb = NoChange
    /\ wpc = "none"
    /\ events_left = 0
    /\ ticks_left = 0
    /\ memo = {}
    /\ last_move = NoMove

\* the style sliders of fiberTest_laser.py after __init__: all at 0.5, none
\* dragged (StrippedFiberTest.py has none); no encoder tick delivered yet
InitialUI ==
    /\ dragging_thickness = FALSE
    /\ dragging_dash_gap = FALSE
    /\ dragging_dash_speed = FALSE
    /\ dragging_vibrance = FALSE
    /\ thickness_value = SliderRes \div 2
    /\ dash_gap_value = SliderRes \div 2
    /\ dash_speed_value = SliderRes \div 2
    /\ vibrance_value = SliderRes \div 2
    /\ button = "up"
    /\ delivered = 0
    /\ consumed = 0

\* ----------------------------------------------- input handling and encoder
\* relative_x / self.slider_width of update_slider
SliderFraction(mouse_x, w) == DivR((mouse_x - SLIDER_X) * SliderRes, w - 100)

\* the fraction taken as the slider value without the clamp to [0, 1]
update_slider_unclamped(mouse_x, w) ==
    IF w - 100 = 0 THEN SliderRes \div 2 ELSE SliderFraction(mouse_x, w)

\* update_slider: max(0.0, min(1.0, relative_x / self.slider_width)), and 0.5
\* when the division fails (slider_width = screen_width - 100 = 0)
update_slider(mouse_x, w) ==
    IF w - 100 = 0 THEN SliderRes \div 2
    ELSE Max2(0, Min2(SliderRes, SliderFraction(mouse_x, w)))

\* the test of MOUSEBUTTONDOWN: the position is on the angle slider
OnSlider(pos, w, h) ==
    /\ h - 80 <= pos[2] /\ pos[2] <= h - 80 + SLIDER_HEIGHT
    /\ SLIDER_X <= pos[1] /\ pos[1] <= SLIDER_X + (w - 100)

\* apply_encoder_movement, the movement in units of encoder_slider_speed
apply_encoder_movement(sv, movement) ==
    IF movement > 0 THEN Min2(SliderRes, sv + Abs(movement))
    ELSE IF movement < 0 THEN Max2(0, sv - Abs(movement))
    ELSE sv

\* the entries of encoder_position_history younger than 0.1 s at time now
RecentHistory(history, now) ==
    SelectSeq(history, LAMBDA entry : now - entry.time < HISTORY_TICKS)

\* encoder_position_history.append(entry): a deque of maxlen 3 drops its
\* oldest entry when full, the list that replaces it grows
HistoryAppend(history, is_deque, entry) ==
    IF is_deque /\ Len(history) >= HISTORY_MAXLEN
    THEN Append(Tail(history), entry)
    ELSE Append(history, entry)

\* the pygame events of the model: quit, escape, and the left mouse button
\* and mouse motion at the positions MouseXs, on and off the slider's rows
MouseXs(w) == {0, SLIDER_X, SLIDER_X + 1, w}

MouseYs(h) == {0, h - 80}

Events(w, h) ==
    {[type |-> "QUIT", pos |-> <<0, 0>>], [type |-> "KEYDOWN_ESCAPE", pos |-> <<0, 0>>],
     [type |-> "MOUSEBUTTONUP", pos |-> <<0, 0>>]}
    \cup {[type |-> "MOUSEBUTTONDOWN", pos |-> <<x, y>>] : x \in MouseXs(w), y \in MouseYs(h)}
    \cup {[type |-> "MOUSEMOTION", pos |-> <<x, 0>>] : x \in MouseXs(w) \cup {-1}}

\* encoder position changes delivered by the device
PositionChanges == {-1, 1}

\* ------------------------------------------- specification of one tracer call
\* the slider values the tracer is called with
SliderInputs ==
    {(k * SliderRes) \div SliderSamples : k \in 0..SliderSamples} \cup {SliderRes \div 2}

\* screen sizes whose traced region is MinW..MaxW wide and MinH..MaxH high
ScreenWidths(v) == IF v = "stripped" THEN MinW..MaxW ELSE {100 + w : w \in MinW..MaxW}

ScreenHeights(v) == IF v = "stripped" THEN MinH..MaxH ELSE {180 + h : h \in MinH..MaxH}

Geo == Geometry(variant, screen_width, screen_height)

TraceInit ==
    /\ variant \in {"stripped", "laser"}
    /\ screen_width \in ScreenWidths(variant)
    /\ screen_height \in ScreenHeights(variant)
    /\ slider_value \in SliderInputs
    /\ path = NoPath
    /\ trace = TraceStart(slider_value, variant, Geo)
    /\ tpc = "loop"
    /\ time = 0
    /\ global_dash_offset = 0
    /\ effect_toggles = InitialToggles(variant)
    /\ style = InitialStyle(variant)
    /\ pc = "calc"
    /\ draw_i = 0
    /\ cumulative_distance = 0
    /\ tier = NoTier
    /\ call = NoCall
    /\ draws = << >>
    /\ dashes = << >>
    /\ NoEncoder
    /\ InitialUI

\* one iteration of the while loop
TraceLoop ==
    /\ tpc = "loop"
    /\ TraceRunning(trace, Geo)
    /\ trace' = TraceStep(trace, Geo)
    /\ UNCHANGED <<tickVars, uiVars, inputVars, tpc, animVars, effect_toggles, style, path, pc, drawVars,
                   frameVars>>

\* the loop condition fails: return path_points, total_distance, bounces
TraceReturn ==
    /\ tpc = "loop"
    /\ ~TraceRunning(trace, Geo)
    /\ tpc' = "done"
    /\ UNCHANGED <<tickVars, uiVars, inputVars, trace, animVars, effect_toggles, style, path, pc, drawVars,
                   frameVars>>

TraceNext == TraceLoop \/ TraceReturn

SpecTrace == TraceInit /\ [][TraceNext]_vars /\ WF_vars(TraceNext)

\* --------------------------------------------------- render loop, per segment
\* the loop of run() without input events, draw_light_path one loop
\* iteration at a time
DrawInit ==
    /\ variant \in {"stripped", "laser"}
    /\ screen_width \in ScreenWidths(variant)
    /\ screen_height \in ScreenHeights(variant)
    /\ slider_value \in SliderInputs
    /\ path = NoPath
    /\ trace = TraceStart(slider_value, variant, Geo)
    /\ tpc = "idle"
    /\ time = 0
    /\ global_dash_offset = 0
    /\ effect_toggles = InitialToggles(variant)
    /\ style = InitialStyle(variant)
    /\ pc = "advance"
    /\ draw_i = 0
    /\ cumulative_distance = 0
    /\ tier = NoTier
    /\ call = NoCall
    /\ draws = << >>
    /\ dashes = << >>
    /\ NoEncoder
    /\ InitialUI

\* self.time += 1 and the advance of the global dash offset
AdvanceAnimation ==
    /\ pc = "advance"
    /\ time < MaxFrames
    /\ time' = time + 1
    /\ global_dash_offset' =
          IF effect_toggles.animated_properties /\ effect_toggles.pulsing_segments
          THEN global_dash_offset + (25 * style.dash_speed_multiplier) \div 10
          ELSE global_dash_offset
    /\ pc' = "calc"
    /\ UNCHANGED <<tickVars, uiVars, inputVars, traceVars, effect_toggles, style, path, drawVars,
                   frameVars>>

\* path_points, total_distance, ... = self.calculate_light_path()
CalcPath ==
    /\ pc = "calc"
    /\ path' = calculate_light_path(slider_value, variant, Geo)
    /\ pc' = "draw"
    /\ UNCHANGED <<tickVars, uiVars, inputVars, traceVars, animVars, effect_toggles, style, drawVars,
                   frameVars>>

\* a test that lets a path of one point through
Degenerate_empty(path_points) == Len(path_points) < 1

\* if len(path_points) < 2: return
Degenerate(path_points) == Len(path_points) < 2

\* draw_light_path up to its segment loop: return for fewer than two points,
\* else choose light_color and intensity
DrawBegin ==
    /\ pc = "draw"
    /\ IF Degenerate(path.path_points)
       THEN /\ pc' = "flip"
            /\ UNCHANGED <<draw_i, cumulative_distance, tier,
                   frameVars>>
       ELSE /\ pc' = "segments"
            /\ tier' = LightTier(CurrentAngle(slider_value, variant))
            /\ cumulative_distance' = 0
            /\ draw_i' = 1
    /\ call' = NoCall
    /\ draws' = << >>
    /\ dashes' = << >>
    /\ UNCHANGED <<tickVars, uiVars, inputVars, traceVars, animVars, effect_toggles, style, path,
                   frameVars>>

\* one iteration of the segment loop
DrawSegmentStep ==
    /\ pc = "segments"
    /\ draw_i <= Len(path.path_points) - 1
    /\ LET r == DrawSegment(path.path_points, draw_i, tier, cumulative_distance, Self)
       IN  /\ draws' = r.draws
           /\ dashes' = r.dashes
    /\ call' = [start_pos |-> path.path_points[draw_i],
                end_pos |-> path.path_points[draw_i + 1],
                base_color |-> tier.light_color, intensity |-> tier.intensity,
                cumulative_distance |-> cumulative_distance]
    /\ cumulative_distance' = cumulative_distance + SegmentLength(path.path_points, draw_i)
    /\ draw_i' = draw_i + 1
    /\ UNCHANGED <<tickVars, uiVars, inputVars, traceVars, animVars, effect_toggles, style, path, pc, tier,
                   frameVars>>

\* the segment loop is over: on to the bounce markers
DrawSegmentsDone ==
    /\ pc = "segments"
    /\ draw_i > Len(path.path_points) - 1
    /\ pc' = "bounces"
    /\ draw_i' = 1
    /\ draws' = << >>
    /\ dashes' = << >>
    /\ UNCHANGED <<tickVars, uiVars, inputVars, traceVars, animVars, effect_toggles, style, path,
                   cumulative_distance, tier, call,
                   frameVars>>

\* one iteration of the bounce marker loop
DrawBounceStep ==
    /\ pc = "bounces"
    /\ draw_i <= Min2(Len(path.bounce_positions), Len(path.bounce_angles))
    /\ draws' = DrawBounce(path.bounce_positions[draw_i], path.bounce_angles[draw_i],
                           draw_i, Self)
    /\ draw_i' = draw_i + 1
    /\ UNCHANGED <<tickVars, uiVars, inputVars, traceVars, animVars, effect_toggles, style, path, pc,
                   cumulative_distance, tier, call, dashes,
                   frameVars>>

\* the bounce loop is over: the laser source marker
DrawSourceStep ==
    /\ pc = "bounces"
    /\ draw_i > Min2(Len(path.bounce_positions), Len(path.bounce_angles))
    /\ draws' = DrawSource(path.path_points[1], Self)
    /\ pc' = "exit"
    /\ UNCHANGED <<tickVars, uiVars, inputVars, traceVars, animVars, effect_toggles, style, path, draw_i,
                   cumulative_distance, tier, call, dashes,
                   frameVars>>

\* the laser exit marker; draw_light_path returns
DrawExitStep ==
    /\ pc = "exit"
    /\ draws' = DrawExit(LastPoint(path), tier.light_color, Self)
    /\ pc' = "flip"
    /\ UNCHANGED <<tickVars, uiVars, inputVars, traceVars, animVars, effect_toggles, style, path, draw_i,
                   cumulative_distance, tier, call, dashes,
                   frameVars>>

\* pygame.display.flip(), self.clock.tick(60): the frame is over
Flip ==
    /\ pc = "flip"
    /\ pc' = "advance"
    /\ UNCHANGED <<tickVars, uiVars, inputVars, traceVars, animVars, effect_toggles, style, path, drawVars,
                   frameVars>>

DrawNext ==
    \/ AdvanceAnimation
    \/ CalcPath
    \/ DrawBegin
    \/ DrawSegmentStep
    \/ DrawSegmentsDone
    \/ DrawBounceStep
    \/ DrawSourceStep
    \/ DrawExitStep
    \/ Flip

SpecDraw == DrawInit /\ [][DrawNext]_vars

\* ------------------------------------ one call of draw_light_path, any path
\* the arguments of draw_light_path: the path the tracer returns for the
\* slider value, and paths of no point and of one point, with and without
\* a bounce
RenderPaths(sv, v, g) ==
    {calculate_light_path(sv, v, g)}
    \cup {[path_points |-> pts, total_distance |-> 0, bounce_angles |-> angles,
           bounce_positions |-> positions] :
             pts \in {<< >>, << <<g.left, g.start_y>> >>},
             angles \in {<< >>, <<30000>>},
             positions \in {<< >>, << <<g.left * SCALE, g.top * SCALE>> >>}}

\* draw_light_path is entered in a frame of the animation
RenderInit ==
    /\ variant \in {"stripped", "laser"}
    /\ screen_width = CHOOSE w \in ScreenWidths(variant) : TRUE
    /\ screen_height = CHOOSE h \in ScreenHeights(variant) : TRUE
    /\ slider_value \in SliderInputs
    /\ path \in RenderPaths(slider_value, variant, Geo)
    /\ trace = TraceStart(slider_value, variant, Geo)
    /\ tpc = "idle"
    /\ time \in 1..MaxFrames
    /\ global_dash_offset =
          IF InitialToggles(variant).animated_properties
             /\ InitialToggles(variant).pulsing_segments
          THEN time * ((25 * InitialStyle(variant).dash_speed_multiplier) \div 10)
          ELSE 0
    /\ effect_toggles = InitialToggles(variant)
    /\ style = InitialStyle(variant)
    /\ pc = "draw"
    /\ draw_i = 0
    /\ cumulative_distance = 0
    /\ tier = NoTier
    /\ call = NoCall
    /\ draws = << >>
    /\ dashes = << >>
    /\ NoEncoder
    /\ InitialUI

RenderNext ==
    \/ DrawBegin
    \/ DrawSegmentStep
    \/ DrawSegmentsDone
    \/ DrawBounceStep
    \/ DrawSourceStep
    \/ DrawExitStep

SpecRender == RenderInit /\ [][RenderNext]_vars

\* ------------------------------- one call of draw_pulsing_segments, any beam
\* the longest beam handed to draw_pulsing_segments, in pixels
MaxBeam == 16

\* the thickness and dash gap multipliers of the call: those of
\* StrippedFiberTest.py, and the ends of the ranges of get_thickness_multiplier
\* and get_dash_gap_multiplier of fiberTest_laser.py
DashStyles ==
    {[InitialStyle("stripped") EXCEPT !.thickness_multiplier = t, !.dash_gap_multiplier = g] :
        t \in {SCALE \div 2, (THICKNESS_TENTHS * SCALE) \div 10},
        g \in {(2 * SCALE) \div 10, (DASH_GAP_TENTHS * SCALE) \div 10, 2 * SCALE}}

\* the arguments of the call: a beam from the origin, the tier colour and
\* intensity, and the distance travelled before the beam
DashCalls ==
    {[start_pos |-> <<0, 0>>, end_pos |-> <<x, y>>, base_color |-> ORANGE,
      intensity |-> (6 * SCALE) \div 10, cumulative_distance |-> c] :
        x \in {0, 1, 2, 5, 9, 10, 11, MaxBeam}, y \in {0, 2},
        c \in {0, 1414, 4500, 7000, 52500}}

\* draw_pulsing_segments is entered with a beam, a style and a dash offset
DashInit ==
    /\ variant = "stripped"
    /\ screen_width = MaxW
    /\ screen_height = MaxH
    /\ slider_value = SliderRes \div 2
    /\ path = NoPath
    /\ trace = TraceStart(slider_value, variant, Geo)
    /\ tpc = "idle"
    /\ time = 1
    /\ global_dash_offset \in {0, 3333, 12250}
    /\ effect_toggles \in {InitialToggles("stripped"),
                           [InitialToggles("stripped") EXCEPT !.animated_properties = FALSE]}
    /\ style \in DashStyles
    /\ pc = "dash"
    /\ draw_i = 0
    /\ cumulative_distance = 0
    /\ tier = NoTier
    /\ call \in DashCalls
    /\ draws = << >>
    /\ dashes = << >>
    /\ NoEncoder
    /\ InitialUI

\* the call of draw_pulsing_segments: the strokes it issues
DashStroke ==
    /\ pc = "dash"
    /\ LET result == draw_pulsing_segments(call.start_pos, call.end_pos, call.base_color,
                                           WHITE, SegmentPulse(Self), call.intensity,
                                           call.cumulative_distance, Self)
       IN  /\ draws' = result.draws
           /\ dashes' = result.dashes
    /\ pc' = "stroked"
    /\ UNCHANGED <<tickVars, uiVars, inputVars, traceVars, animVars, effect_toggles, style, path, draw_i,
                   cumulative_distance, tier, call, frameVars>>

SpecDash == DashInit /\ [][DashStroke]_vars

\* ----------------------------------------------------- claims on the tracer

\* C1: for every slider value in [0,1] and every positive screen width the
\* step-and-reflect loop of calculate_light_path reaches x >= screenWidth
\* after finitely many steps, whatever number of bounces occur.
C1_TracerTerminates == <>(tpc = "done")

\* a call that returned after several bounces
C1_Witness == tpc = "done" /\ Len(trace.bounce_angles) >= 3

\* C2: the path is never empty; its first point is the start point (the
\* configured start x, y at mid-height) and on return its last point has
\* x >= screenWidth - stepSize.
C2_PathNonEmpty ==
    /\ Len(trace.path_points) >= 1
    /\ trace.path_points[1][1] = (IF variant = "stripped" THEN 0 ELSE FIBER_LEFT)
    /\ LET height == Geo.bottom - Geo.top
       IN  2 * (trace.path_points[1][2] - Geo.top) \in {height - 1, height}
    /\ tpc = "done" => LastPoint(trace)[1] >= Geo.right - STEP_SIZE

\* a returned path of a slanted ray
C2_Witness ==
    /\ tpc = "done"
    /\ slider_value = 0
    /\ Len(trace.path_points) >= 3

\* C3: with the slider at exactly 0.5 the entry angle is 0 (dx = 1, dy = 0),
\* no bounce is recorded and the path is one horizontal run at the start y
\* from the start x to about screenWidth.
C3_StraightAtCentre ==
    slider_value = SliderRes \div 2 =>
        /\ get_angle_from_slider(slider_value, variant) = 0
        /\ trace.dx = SCALE
        /\ trace.dy = 0
        /\ trace.bounce_angles = << >>
        /\ trace.bounce_positions = << >>
        /\ \A i \in 1..Len(trace.path_points) :
              trace.path_points[i] = <<Geo.left + STEP_SIZE * (i - 1), Geo.start_y>>
        /\ tpc = "done" =>
              /\ LastPoint(trace)[1] >= Geo.right
              /\ LastPoint(trace)[1] < Geo.right + STEP_SIZE

\* the call with the slider at 0.5 has returned
C3_Witness ==
    /\ tpc = "done"
    /\ slider_value = SliderRes \div 2
    /\ Len(trace.path_points) >= 3

\* C4: bounce events are recorded in order of occurrence and consecutive
\* bounce events have strictly increasing x.
C4_BouncesOrdered ==
    /\ \A i \in 1..(Len(trace.bounce_positions) - 1) :
          trace.bounce_positions[i][1] < trace.bounce_positions[i + 1][1]
    /\ \A i \in 1..Len(trace.bounce_positions) :
          trace.bounce_positions[i][1] < trace.x

\* a returned path with bounces on consecutive pixels of x
C4_Witness ==
    /\ tpc = "done"
    /\ \E i \in 1..(Len(trace.bounce_positions) - 1) :
          Trunc(trace.bounce_positions[i][1]) = Trunc(trace.bounce_positions[i + 1][1])

\* C9: the total distance returned equals stepCount * stepSize (here up to
\* the rounding of the fixed-point square root, two units per step).
C9_DistanceIsSteps ==
    tpc = "done" =>
        LET stepCount == Len(trace.path_points) - 1
        IN  Abs(trace.total_distance - stepCount * STEP_SIZE * SCALE) <= 2 * stepCount

\* ------------------------------------------- render loop with encoder thread
\* run() of StrippedFiberTest.py frame by frame, with the encoder worker
\* thread and the device's position change callbacks
FrameWidths == {100 + MaxW}

FrameHeights == {80 + MaxH}

Init ==
    /\ variant = "stripped"
    /\ screen_width \in FrameWidths
    /\ screen_height \in FrameHeights
    /\ slider_value = SliderRes \div 2
    /\ path = NoPath
    /\ trace = TraceStart(slider_value, variant, Geo)
    /\ tpc = "idle"
    /\ time = 0
    /\ global_dash_offset = 0
    /\ effect_toggles = InitialToggles(variant)
    /\ style = InitialStyle(variant)
    /\ pc = "advance"
    /\ draw_i = 0
    /\ cumulative_distance = 0
    /\ tier = NoTier
    /\ call = NoCall
    /\ draws = << >>
    /\ dashes = << >>
    /\ running = TRUE
    /\ dragging = FALSE
    /\ encoder_enabled = FALSE
    /\ device_open = FALSE
    /\ encoder_accumulator = 0
    /\ encoder_position_history = << >>
    /\ history_is_deque = TRUE
    /\ encoder_lock = "free"
    /\ last_encoder_update = 0
    /\ clock = 0
    /\ cpc = "idle"
    /\ cb = NoChange
    /\ wpc = "start"
    /\ events_left = MaxEvents
    /\ ticks_left = MaxTicks
    /\ memo = {}
    /\ last_move = NoMove
    /\ InitialUI

\* the bounds of the traced region of the frame loop's screen
FrameGeo == Geometry("stripped", 100 + MaxW, 80 + MaxH)

\* the slider values the mouse positions and encoder steps above can produce
FrameSliders ==
    {Max2(0, Min2(SliderRes, base + d)) :
        base \in {SliderRes \div 2}
                 \cup {update_slider(x, 100 + MaxW) : x \in MouseXs(100 + MaxW)},
        d \in (0 - MaxTicks)..MaxTicks}

\* calculate_light_path on these values, evaluated once
PathTable == [sv \in FrameSliders |-> calculate_light_path(sv, "stripped", FrameGeo)]

\* self.calculate_light_path() as called by run()
traced_path(sv, v, g) ==
    IF v = "stripped" /\ g = FrameGeo /\ sv \in FrameSliders
    THEN PathTable[sv]
    ELSE calculate_light_path(sv, v, g)

\* while self.running: self.time += 1
FrameAdvance ==
    /\ pc = "advance"
    /\ running
    /\ time < MaxFrames
    /\ time' = time + 1
    /\ pc' = "encoder"
    /\ UNCHANGED <<tickVars, uiVars, inputVars, traceVars, global_dash_offset, effect_toggles, style, path,
                   drawVars, frameVars>>

\* an update that goes on while the slider is dragged
EncoderCheck_dragged ==
    /\ pc = "encoder"
    /\ pc' = IF ~encoder_enabled
                \/ clock - last_encoder_update < DEBOUNCE_TICKS
             THEN "dash" ELSE "enc_wait"
    /\ UNCHANGED <<tickVars, uiVars, inputVars, traceVars, animVars, effect_toggles, style, path, drawVars,
                   frameVars>>

\* update_slider_from_encoder up to the lock: return when the encoder is
\* not enabled, during a drag, and within 50 ms of the last update
EncoderCheck ==
    /\ pc = "encoder"
    /\ pc' = IF ~encoder_enabled \/ dragging
                \/ clock - last_encoder_update < DEBOUNCE_TICKS
             THEN "dash" ELSE "enc_wait"
    /\ UNCHANGED <<tickVars, uiVars, inputVars, traceVars, animVars, effect_toggles, style, path, drawVars,
                   frameVars>>

\* with self.encoder_lock: acquired by the render thread
EncoderAcquire ==
    /\ pc = "enc_wait"
    /\ encoder_lock = "free"
    /\ encoder_lock' = "render"
    /\ pc' = "enc_locked"
    /\ UNCHANGED <<tickVars, uiVars, inputVars, traceVars, animVars, effect_toggles, style, path, drawVars,
                   running, dragging, encoder_enabled, device_open, encoder_accumulator,
                   encoder_position_history, history_is_deque, last_encoder_update, clock,
                   cpc, cb, wpc, events_left, ticks_left, memo, last_move>>

\* an update that moves the slider and leaves the ticks in the accumulator
EncoderApply_keep ==
    /\ pc = "enc_locked"
    /\ IF Abs(encoder_accumulator) >= ENCODER_THRESHOLD
       THEN LET direction == IF encoder_accumulator > 0 THEN 1 ELSE -1
                accumulated_steps == Abs(encoder_accumulator) \div ENCODER_THRESHOLD
                movement == accumulated_steps * direction
                used_accumulator == accumulated_steps * ENCODER_THRESHOLD * direction
            IN  /\ slider_value' = apply_encoder_movement(slider_value, movement)
                /\ last_move' = [source |-> "encoder", requested |-> slider_value + movement]
                /\ encoder_accumulator' = encoder_accumulator
                /\ encoder_position_history' = RecentHistory(encoder_position_history, clock)
                /\ history_is_deque' = FALSE
                /\ last_encoder_update' = clock
                /\ consumed' = consumed + used_accumulator
       ELSE UNCHANGED <<slider_value, last_move, encoder_accumulator,
                        encoder_position_history, history_is_deque, last_encoder_update,
                        consumed>>
    /\ encoder_lock' = "free"
    /\ pc' = "dash"
    /\ UNCHANGED <<delivered, uiVars, variant, screen_width, screen_height, traceVars, animVars,
                   effect_toggles, style, path, drawVars, running, dragging,
                   encoder_enabled, device_open, clock, cpc, cb, wpc, events_left,
                   ticks_left, memo>>

\* the body of the with block of update_slider_from_encoder, and its release
EncoderApply ==
    /\ pc = "enc_locked"
    /\ IF Abs(encoder_accumulator) >= ENCODER_THRESHOLD
       THEN LET direction == IF encoder_accumulator > 0 THEN 1 ELSE -1
                accumulated_steps == Abs(encoder_accumulator) \div ENCODER_THRESHOLD
                movement == accumulated_steps * direction
                used_accumulator == accumulated_steps * ENCODER_THRESHOLD * direction
            IN  /\ slider_value' = apply_encoder_movement(slider_value, movement)
                /\ last_move' = [source |-> "encoder", requested |-> slider_value + movement]
                /\ encoder_accumulator' = encoder_accumulator - used_accumulator
                /\ encoder_position_history' = RecentHistory(encoder_position_history, clock)
                /\ history_is_deque' = FALSE
                /\ last_encoder_update' = clock
                /\ consumed' = consumed + used_accumulator
       ELSE UNCHANGED <<slider_value, last_move, encoder_accumulator,
                        encoder_position_history, history_is_deque, last_encoder_update,
                        consumed>>
    /\ encoder_lock' = "free"
    /\ pc' = "dash"
    /\ UNCHANGED <<delivered, uiVars, variant, screen_width, screen_height, traceVars, animVars,
                   effect_toggles, style, path, drawVars, running, dragging,
                   encoder_enabled, device_open, clock, cpc, cb, wpc, events_left,
                   ticks_left, memo>>

\* a loop whose dash speed grows with every frame
FrameDash_faster ==
    /\ pc = "dash"
    /\ global_dash_offset' =
          IF effect_toggles.animated_properties /\ effect_toggles.pulsing_segments
          THEN global_dash_offset + (25 * style.dash_speed_multiplier) \div 10
          ELSE global_dash_offset
    /\ style' = [style EXCEPT !.dash_speed_multiplier = @ + SCALE \div 10]
    /\ pc' = "events"
    /\ UNCHANGED <<tickVars, uiVars, inputVars, traceVars, time, effect_toggles, path, drawVars,
                   frameVars>>

\* self.global_dash_offset += 2.5 * self.dash_speed_multiplier
FrameDash ==
    /\ pc = "dash"
    /\ global_dash_offset' =
          IF effect_toggles.animated_properties /\ effect_toggles.pulsing_segments
          THEN global_dash_offset + (25 * style.dash_speed_multiplier) \div 10
          ELSE global_dash_offset
    /\ pc' = "events"
    /\ UNCHANGED <<tickVars, uiVars, inputVars, traceVars, time, effect_toggles, style, path, drawVars,
                   frameVars>>

\* one iteration of the loop of handle_events
HandleEvent(event) ==
    /\ pc = "events"
    /\ events_left > 0
    /\ events_left' = events_left - 1
    /\ running' = IF event.type \in {"QUIT", "KEYDOWN_ESCAPE"} THEN FALSE ELSE running
    /\ dragging' =
          IF event.type = "MOUSEBUTTONDOWN" /\ OnSlider(event.pos, screen_width, screen_height)
          THEN TRUE
          ELSE IF event.type = "MOUSEBUTTONUP" THEN FALSE
          ELSE dragging
    /\ IF \/ event.type = "MOUSEBUTTONDOWN"
             /\ OnSlider(event.pos, screen_width, screen_height)
          \/ event.type = "MOUSEMOTION" /\ dragging
             /\ 0 <= event.pos[1] /\ event.pos[1] <= screen_width
       THEN /\ slider_value' = update_slider(event.pos[1], screen_width)
            /\ last_move' = [source |-> "mouse",
                             requested |-> SliderFraction(event.pos[1], screen_width)]
       ELSE UNCHANGED <<slider_value, last_move>>
    /\ UNCHANGED <<tickVars, uiVars, variant, screen_width, screen_height, traceVars, animVars,
                   effect_toggles, style, path, pc, drawVars, encoder_enabled, device_open,
                   encoder_accumulator, encoder_position_history, history_is_deque,
                   encoder_lock, last_encoder_update, clock, cpc, cb, wpc, ticks_left, memo>>

\* a loop that goes from the events straight to the drawing
EventsDone_skip ==
    /\ pc = "events"
    /\ pc' = "draw"
    /\ UNCHANGED <<tickVars, uiVars, inputVars, traceVars, animVars, effect_toggles, style, path, drawVars,
                   frameVars>>

\* the event queue is empty: handle_events returns
EventsDone ==
    /\ pc = "events"
    /\ pc' = "calc"
    /\ UNCHANGED <<tickVars, uiVars, inputVars, traceVars, animVars, effect_toggles, style, path, drawVars,
                   frameVars>>

\* a loop that computes the path once and draws that result ever after
FrameCalc_cached ==
    /\ pc = "calc"
    /\ path' = IF path = NoPath THEN traced_path(slider_value, variant, Geo) ELSE path
    /\ memo' = memo \cup {[slider_value |-> slider_value, time |-> time,
                           global_dash_offset |-> global_dash_offset,
                           clock |-> clock, result |-> path']}
    /\ pc' = "draw"
    /\ UNCHANGED <<tickVars, uiVars, inputVars, traceVars, animVars, effect_toggles, style, drawVars,
                   running, dragging, encoder_enabled, device_open, encoder_accumulator,
                   encoder_position_history, history_is_deque, encoder_lock,
                   last_encoder_update, clock, cpc, cb, wpc, events_left, ticks_left,
                   last_move>>

\* path_points, total_distance, ... = self.calculate_light_path()
FrameCalc ==
    /\ pc = "calc"
    /\ path' = traced_path(slider_value, variant, Geo)
    /\ memo' = memo \cup {[slider_value |-> slider_value, time |-> time,
                           global_dash_offset |-> global_dash_offset,
                           clock |-> clock, result |-> path']}
    /\ pc' = "draw"
    /\ UNCHANGED <<tickVars, uiVars, inputVars, traceVars, animVars, effect_toggles, style, drawVars,
                   running, dragging, encoder_enabled, device_open, encoder_accumulator,
                   encoder_position_history, history_is_deque, encoder_lock,
                   last_encoder_update, clock, cpc, cb, wpc, events_left, ticks_left,
                   last_move>>

\* draw_light_path as a whole (its strokes are stepped through in SpecDraw),
\* display.flip() and clock.tick(60)
FrameDraw ==
    /\ pc = "draw"
    /\ tier' = IF Len(path.path_points) < 2 THEN tier
               ELSE LightTier(CurrentAngle(slider_value, variant))
    /\ pc' = "advance"
    /\ UNCHANGED <<tickVars, uiVars, inputVars, traceVars, animVars, effect_toggles, style, path, draw_i,
                   cumulative_distance, call, draws, dashes, frameVars>>

\* the loop of run() is left: cleanup_encoder closes the device
Cleanup ==
    /\ pc = "advance"
    /\ ~running
    /\ running' = FALSE
    /\ device_open' = IF encoder_enabled THEN FALSE ELSE device_open
    /\ pc' = "join"
    /\ UNCHANGED <<tickVars, uiVars, inputVars, traceVars, animVars, effect_toggles, style, path, drawVars,
                   dragging, encoder_enabled, encoder_accumulator,
                   encoder_position_history, history_is_deque, encoder_lock,
                   last_encoder_update, clock, cpc, cb, wpc, events_left, ticks_left, memo,
                   last_move>>

\* encoder_thread.join(timeout=1.0) returns; pygame.quit(), sys.exit()
Join ==
    /\ pc = "join"
    /\ pc' = "exit"
    /\ UNCHANGED <<tickVars, uiVars, inputVars, traceVars, animVars, effect_toggles, style, path, drawVars,
                   frameVars>>

\* encoder_thread_worker: openWaitForAttachment succeeds, encoder_enabled = True
WorkerAttach ==
    /\ wpc = "start"
    /\ pc # "exit"
    /\ encoder_enabled' = TRUE
    /\ device_open' = TRUE
    /\ wpc' = "alive"
    /\ UNCHANGED <<tickVars, uiVars, inputVars, traceVars, animVars, effect_toggles, style, path, pc,
                   drawVars, running, dragging, encoder_accumulator,
                   encoder_position_history, history_is_deque, encoder_lock,
                   last_encoder_update, clock, cpc, cb, events_left, ticks_left, memo,
                   last_move>>

\* encoder_thread_worker: openWaitForAttachment raises, encoder_enabled = False
WorkerAttachFail ==
    /\ wpc = "start"
    /\ pc # "exit"
    /\ encoder_enabled' = FALSE
    /\ wpc' = "closing"
    /\ UNCHANGED <<tickVars, uiVars, inputVars, traceVars, animVars, effect_toggles, style, path, pc,
                   drawVars, running, dragging, device_open, encoder_accumulator,
                   encoder_position_history, history_is_deque, encoder_lock,
                   last_encoder_update, clock, cpc, cb, events_left, ticks_left, memo,
                   last_move>>

\* encoder_thread_worker: while self.running is left
WorkerLeave ==
    /\ wpc = "alive"
    /\ pc # "exit"
    /\ ~running
    /\ wpc' = "closing"
    /\ UNCHANGED <<tickVars, uiVars, inputVars, traceVars, animVars, effect_toggles, style, path, pc,
                   drawVars, running, dragging, encoder_enabled, device_open,
                   encoder_accumulator, encoder_position_history, history_is_deque,
                   encoder_lock, last_encoder_update, clock, cpc, cb, events_left,
                   ticks_left, memo, last_move>>

\* encoder_thread_worker: finally, self.encoder_device.close()
WorkerClose ==
    /\ wpc = "closing"
    /\ pc # "exit"
    /\ device_open' = FALSE
    /\ wpc' = "dead"
    /\ UNCHANGED <<tickVars, uiVars, inputVars, traceVars, animVars, effect_toggles, style, path, pc,
                   drawVars, running, dragging, encoder_enabled, encoder_accumulator,
                   encoder_position_history, history_is_deque, encoder_lock,
                   last_encoder_update, clock, cpc, cb, events_left, ticks_left, memo,
                   last_move>>

\* on_encoder_position_change is called by the device: current_time = time.time()
CallbackStart(positionChange) ==
    /\ cpc = "idle"
    /\ pc # "exit"
    /\ device_open
    /\ ticks_left > 0
    /\ ticks_left' = ticks_left - 1
    /\ cb' = [change |-> positionChange, time |-> clock]
    /\ cpc' = "waiting"
    /\ delivered' = delivered + positionChange
    /\ UNCHANGED <<consumed, uiVars, inputVars, traceVars, animVars, effect_toggles, style, path, pc,
                   drawVars, running, dragging, encoder_enabled, device_open,
                   encoder_accumulator, encoder_position_history, history_is_deque,
                   encoder_lock, last_encoder_update, clock, wpc, events_left, memo,
                   last_move>>

\* a callback that enters its block without waiting for the lock
CallbackAcquire_nowait ==
    /\ cpc = "waiting"
    /\ pc # "exit"
    /\ encoder_lock' = "callback"
    /\ cpc' = "locked"
    /\ UNCHANGED <<tickVars, uiVars, inputVars, traceVars, animVars, effect_toggles, style, path, pc,
                   drawVars, running, dragging, encoder_enabled, device_open,
                   encoder_accumulator, encoder_position_history, history_is_deque,
                   last_encoder_update, clock, cb, wpc, events_left, ticks_left, memo,
                   last_move>>

\* with self.encoder_lock: acquired by the callback
CallbackAcquire ==
    /\ cpc = "waiting"
    /\ pc # "exit"
    /\ encoder_lock = "free"
    /\ encoder_lock' = "callback"
    /\ cpc' = "locked"
    /\ UNCHANGED <<tickVars, uiVars, inputVars, traceVars, animVars, effect_toggles, style, path, pc,
                   drawVars, running, dragging, encoder_enabled, device_open,
                   encoder_accumulator, encoder_position_history, history_is_deque,
                   last_encoder_update, clock, cb, wpc, events_left, ticks_left, memo,
                   last_move>>

\* the body of the with block of on_encoder_position_change, and its release
CallbackApply ==
    /\ cpc = "locked"
    /\ pc # "exit"
    /\ encoder_accumulator' = encoder_accumulator + cb.change
    /\ encoder_position_history' =
          HistoryAppend(encoder_position_history, history_is_deque, cb)
    /\ encoder_lock' = "free"
    /\ cpc' = "idle"
    /\ UNCHANGED <<tickVars, uiVars, inputVars, traceVars, animVars, effect_toggles, style, path, pc,
                   drawVars, running, dragging, encoder_enabled, device_open,
                   history_is_deque, last_encoder_update, clock, cb, wpc, events_left,
                   ticks_left, memo, last_move>>

\* 50 ms of wall-clock time pass
Tick ==
    /\ clock < MaxClock
    /\ pc # "exit"
    /\ clock' = clock + 1
    /\ UNCHANGED <<tickVars, uiVars, inputVars, traceVars, animVars, effect_toggles, style, path, pc,
                   drawVars, running, dragging, encoder_enabled, device_open,
                   encoder_accumulator, encoder_position_history, history_is_deque,
                   encoder_lock, last_encoder_update, cpc, cb, wpc, events_left,
                   ticks_left, memo, last_move>>

Next ==
    \/ FrameAdvance
    \/ EncoderCheck
    \/ EncoderAcquire
    \/ EncoderApply
    \/ FrameDash
    \/ \E event \in Events(screen_width, screen_height) : HandleEvent(event)
    \/ EventsDone
    \/ FrameCalc
    \/ FrameDraw
    \/ Cleanup
    \/ Join
    \/ WorkerAttach
    \/ WorkerAttachFail
    \/ WorkerLeave
    \/ WorkerClose
    \/ \E positionChange \in PositionChanges : CallbackStart(positionChange)
    \/ CallbackAcquire
    \/ CallbackApply
    \/ Tick

Spec == Init /\ [][Next]_vars

\* the render thread and the encoder callback are running threads: each goes
\* on whenever it can; the user, the device, the clock and the worker thread
\* owe nothing
Fairness ==
    /\ WF_vars(FrameAdvance)
    /\ WF_vars(EncoderCheck)
    /\ WF_vars(EncoderAcquire)
    /\ WF_vars(EncoderApply)
    /\ WF_vars(FrameDash)
    /\ WF_vars(EventsDone)
    /\ WF_vars(FrameCalc)
    /\ WF_vars(FrameDraw)
    /\ WF_vars(Cleanup)
    /\ WF_vars(Join)
    /\ WF_vars(CallbackAcquire)
    /\ WF_vars(CallbackApply)

SpecLive == Spec /\ Fairness

\* ------------------------------------ a run that receives encoder ticks only
\* the position changes the encoder may deliver in such a run
MaxEncoderTicks == 4

\* run() is entered 50 ms or more after __init__ set last_encoder_update, and
\* the user touches neither mouse nor keyboard
EncoderInit ==
    /\ variant = "stripped"
    /\ screen_width \in FrameWidths
    /\ screen_height \in FrameHeights
    /\ slider_value \in {0, SliderRes \div 2}
    /\ path = NoPath
    /\ trace = TraceStart(slider_value, variant, Geo)
    /\ tpc = "idle"
    /\ time = 0
    /\ global_dash_offset = 0
    /\ effect_toggles = InitialToggles(variant)
    /\ style = InitialStyle(variant)
    /\ pc = "advance"
    /\ draw_i = 0
    /\ cumulative_distance = 0
    /\ tier = NoTier
    /\ call = NoCall
    /\ draws = << >>
    /\ dashes = << >>
    /\ running = TRUE
    /\ dragging = FALSE
    /\ encoder_enabled = FALSE
    /\ device_open = FALSE
    /\ encoder_accumulator = 0
    /\ encoder_position_history = << >>
    /\ history_is_deque = TRUE
    /\ encoder_lock = "free"
    /\ last_encoder_update = -DEBOUNCE_TICKS
    /\ clock = 0
    /\ cpc = "idle"
    /\ cb = NoChange
    /\ wpc = "start"
    /\ events_left = 0
    /\ ticks_left = MaxEncoderTicks
    /\ memo = {}
    /\ last_move = NoMove
    /\ InitialUI

EncoderNext ==
    \/ FrameAdvance
    \/ EncoderCheck
    \/ EncoderAcquire
    \/ EncoderApply
    \/ FrameDash
    \/ EventsDone
    \/ FrameCalc
    \/ FrameDraw
    \/ WorkerAttach
    \/ \E positionChange \in PositionChanges : CallbackStart(positionChange)
    \/ CallbackAcquire
    \/ CallbackApply
    \/ Tick

SpecEncoder == EncoderInit /\ [][EncoderNext]_vars

\* ------------------------------- the controls of fiberTest_laser.py
\* the screen of the runs that handle checkbox and slider input
UIWidth == 1280
UIHeight == 720
\* the input events such a run may receive
MaxClicks == 4

\* self.checkbox_size, self.checkbox_spacing, self.checkbox_y
CHECKBOX_SIZE == 20
CHECKBOX_SPACING == 35
CHECKBOX_Y == 80
\* THICKNESS_, DASH_GAP_, DASH_SPEED_ and VIBRANCE_SLIDER_WIDTH and _HEIGHT
STYLE_SLIDER_WIDTH == 200
STYLE_SLIDER_HEIGHT == 40
THICKNESS_SLIDER_Y == 320
DASH_GAP_SLIDER_Y == 380
DASH_SPEED_SLIDER_Y == 440
VIBRANCE_SLIDER_Y == 500

\* self.checkbox_x = SCREEN_WIDTH - 280
CheckboxX(w) == w - 280

\* THICKNESS_, DASH_GAP_, DASH_SPEED_ and VIBRANCE_SLIDER_X = SCREEN_WIDTH - 320
StyleSliderX(w) == w - 320

\* checkbox_labels of check_checkbox_click
checkbox_labels ==
    <<"gradient_glow", "animated_properties", "laser_core_halo", "particle_effects",
      "pulsing_segments", "solid_with_dashes">>

\* checkbox_rect.collidepoint(mouse_x, mouse_y) for checkbox i (from 1): the
\* left and top edges belong to a pygame.Rect, the right and bottom ones do not
CheckboxHit(i, pos, w) ==
    LET checkbox_x == CheckboxX(w) + (IF checkbox_labels[i] = "solid_with_dashes"
                                     THEN 20 ELSE 0)
        y_pos == CHECKBOX_Y + (i - 1) * CHECKBOX_SPACING
    IN  /\ checkbox_x <= pos[1] /\ pos[1] < checkbox_x + CHECKBOX_SIZE
        /\ y_pos <= pos[2] /\ pos[2] < y_pos + CHECKBOX_SIZE

\* a parent that is switched off leaves its sub-effect as it was
ToggleEffect_keep(toggles, effect_key) ==
    IF effect_key = "solid_with_dashes"
    THEN IF toggles.pulsing_segments
         THEN [toggles EXCEPT !.solid_with_dashes = ~@]
         ELSE toggles
    ELSE [toggles EXCEPT ![effect_key] = ~@]

\* the branch of check_checkbox_click taken for the checkbox that was hit
ToggleEffect(toggles, effect_key) ==
    IF effect_key = "solid_with_dashes"
    THEN IF toggles.pulsing_segments
         THEN [toggles EXCEPT !.solid_with_dashes = ~@]
         ELSE toggles
    ELSE IF effect_key = "pulsing_segments"
    THEN LET toggled == [toggles EXCEPT !.pulsing_segments = ~@]
         IN  IF ~toggled.pulsing_segments
             THEN [toggled EXCEPT !.solid_with_dashes = FALSE]
             ELSE toggled
    ELSE [toggles EXCEPT ![effect_key] = ~@]

\* check_checkbox_click: the first checkbox hit is handled and True returned
check_checkbox_click(toggles, pos, w) ==
    LET hits == {i \in 1..Len(checkbox_labels) : CheckboxHit(i, pos, w)}
    IN  IF hits = {}
        THEN [clicked |-> FALSE, effect_toggles |-> toggles]
        ELSE [clicked |-> TRUE,
              effect_toggles |->
                  ToggleEffect(toggles,
                               checkbox_labels[CHOOSE i \in hits : \A j \in hits : i <= j])]

\* the test of MOUSEBUTTONDOWN for the style slider whose top is slider_y
OnStyleSlider(pos, w, slider_y) ==
    /\ slider_y <= pos[2] /\ pos[2] <= slider_y + STYLE_SLIDER_HEIGHT
    /\ StyleSliderX(w) <= pos[1] /\ pos[1] <= StyleSliderX(w) + STYLE_SLIDER_WIDTH

\* update_thickness_slider, update_dash_gap_slider, update_dash_speed_slider,
\* update_vibrance_slider: max(0.0, min(1.0, relative_x / width))
update_style_slider(mouse_x, w) ==
    Max2(0, Min2(SliderRes, DivR((mouse_x - StyleSliderX(w)) * SliderRes,
                                 STYLE_SLIDER_WIDTH)))

\* get_thickness_multiplier, get_dash_gap_multiplier, get_dash_speed_multiplier,
\* get_vibrance_multiplier of fiberTest_laser.py
StyleOf(thickness, dash_gap, dash_speed, vibrance) ==
    [thickness_multiplier |-> SCALE \div 2 + (45 * ((thickness * SCALE) \div SliderRes)) \div 10,
     dash_gap_multiplier |-> (2 * SCALE) \div 10 + (18 * ((dash_gap * SCALE) \div SliderRes)) \div 10,
     dash_speed_multiplier |-> SCALE \div 10 + (99 * ((dash_speed * SCALE) \div SliderRes)) \div 10,
     vibrance_multiplier |-> SCALE \div 2 + (25 * ((vibrance * SCALE) \div SliderRes)) \div 10]

\* which control a left press lands on: the if/elif chain of MOUSEBUTTONDOWN
PressTarget(toggles, pos, w, h) ==
    IF check_checkbox_click(toggles, pos, w).clicked THEN "checkbox"
    ELSE IF OnStyleSlider(pos, w, VIBRANCE_SLIDER_Y) THEN "vibrance"
    ELSE IF OnStyleSlider(pos, w, DASH_SPEED_SLIDER_Y) THEN "dash_speed"
    ELSE IF OnStyleSlider(pos, w, DASH_GAP_SLIDER_Y) THEN "dash_gap"
    ELSE IF OnStyleSlider(pos, w, THICKNESS_SLIDER_Y) THEN "thickness"
    ELSE IF OnSlider(pos, w, h) THEN "angle"
    ELSE "none"

\* a motion that moves the angle slider whether it is dragged or not
MotionTarget_angle(pos, w) == IF 0 <= pos[1] /\ pos[1] <= w THEN "angle" ELSE "none"

\* which slider a motion moves: the if/elif chain of MOUSEMOTION
MotionTarget(pos, w) ==
    IF dragging THEN (IF 0 <= pos[1] /\ pos[1] <= w THEN "angle" ELSE "none")
    ELSE IF dragging_thickness
    THEN (IF 0 <= pos[1] /\ pos[1] <= w THEN "thickness" ELSE "none")
    ELSE IF dragging_dash_gap
    THEN (IF 0 <= pos[1] /\ pos[1] <= w THEN "dash_gap" ELSE "none")
    ELSE IF dragging_dash_speed
    THEN (IF 0 <= pos[1] /\ pos[1] <= w THEN "dash_speed" ELSE "none")
    ELSE IF dragging_vibrance
    THEN (IF 0 <= pos[1] /\ pos[1] <= w THEN "vibrance" ELSE "none")
    ELSE "none"

\* the positions the user presses at: on, beside and between the checkboxes,
\* on the ends and edges of the sliders, and away from every control
PressPositions(w, h) ==
    {<<CheckboxX(w) + x, CHECKBOX_Y + i * CHECKBOX_SPACING>> :
        x \in {0, CHECKBOX_SIZE}, i \in 0..5}
    \cup {<<CheckboxX(w) + CHECKBOX_SIZE - 1, CHECKBOX_Y + CHECKBOX_SIZE - 1>>,
          <<CheckboxX(w), CHECKBOX_Y + CHECKBOX_SIZE>>}
    \cup {<<StyleSliderX(w) + x, y>> :
            x \in {0, STYLE_SLIDER_WIDTH \div 2, STYLE_SLIDER_WIDTH},
            y \in {THICKNESS_SLIDER_Y, DASH_GAP_SLIDER_Y, DASH_SPEED_SLIDER_Y,
                   VIBRANCE_SLIDER_Y}}
    \cup {<<StyleSliderX(w) + STYLE_SLIDER_WIDTH, VIBRANCE_SLIDER_Y + STYLE_SLIDER_HEIGHT>>,
          <<StyleSliderX(w) + STYLE_SLIDER_WIDTH + 1, VIBRANCE_SLIDER_Y>>}
    \cup {<<SLIDER_X, h - 80>>, <<w \div 2, h - 80>>, <<w - SLIDER_X, h - 80 + SLIDER_HEIGHT>>,
          <<0, 0>>}

\* the events handle_events of fiberTest_laser.py distinguishes; button is
\* event.button, 1 for the left button
LaserEvents(w, h) ==
    {[type |-> "QUIT", pos |-> <<0, 0>>, button |-> 0],
     [type |-> "KEYDOWN_ESCAPE", pos |-> <<0, 0>>, button |-> 0],
     [type |-> "MOUSEBUTTONUP", pos |-> <<0, 0>>, button |-> 1],
     [type |-> "MOUSEBUTTONUP", pos |-> <<0, 0>>, button |-> 3],
     [type |-> "MOUSEBUTTONDOWN", pos |-> <<CheckboxX(w), CHECKBOX_Y>>, button |-> 3]}
    \cup {[type |-> "MOUSEBUTTONDOWN", pos |-> pos, button |-> 1] : pos \in PressPositions(w, h)}
    \cup {[type |-> "MOUSEMOTION", pos |-> <<x, 0>>, button |-> 0] :
            x \in {0, SLIDER_X, w \div 2, StyleSliderX(w) + 1, StyleSliderX(w) + STYLE_SLIDER_WIDTH,
                   w, w + 1}}

\* a run of either program that is about to read its input events
UIInit ==
    /\ variant \in {"stripped", "laser"}
    /\ screen_width = UIWidth
    /\ screen_height = UIHeight
    /\ slider_value = SliderRes \div 2
    /\ path = NoPath
    /\ trace = TraceStart(slider_value, variant, Geo)
    /\ tpc = "idle"
    /\ time = 1
    /\ global_dash_offset = 0
    /\ effect_toggles = InitialToggles(variant)
    /\ style = InitialStyle(variant)
    /\ pc = "events"
    /\ draw_i = 0
    /\ cumulative_distance = 0
    /\ tier = NoTier
    /\ call = NoCall
    /\ draws = << >>
    /\ dashes = << >>
    /\ running = TRUE
    /\ dragging = FALSE
    /\ encoder_enabled = FALSE
    /\ device_open = FALSE
    /\ encoder_accumulator = 0
    /\ encoder_position_history = << >>
    /\ history_is_deque = TRUE
    /\ encoder_lock = "free"
    /\ last_encoder_update = 0
    /\ clock = 0
    /\ cpc = "idle"
    /\ cb = NoChange
    /\ wpc = "none"
    /\ events_left = MaxClicks
    /\ ticks_left = 0
    /\ memo = {}
    /\ last_move = NoMove
    /\ InitialUI

\* one event of the loop of handle_events of fiberTest_laser.py
LaserEvent(event) ==
    /\ variant = "laser"
    /\ pc = "events"
    /\ events_left > 0
    /\ events_left' = events_left - 1
    /\ LET left == event.button = 1
           press == event.type = "MOUSEBUTTONDOWN" /\ left
           release == event.type = "MOUSEBUTTONUP" /\ left
           target == IF press
                     THEN PressTarget(effect_toggles, event.pos, screen_width, screen_height)
                     ELSE IF event.type = "MOUSEMOTION"
                     THEN MotionTarget(event.pos, screen_width)
                     ELSE "none"
           moved == update_style_slider(event.pos[1], screen_width)
       IN  /\ running' = IF event.type \in {"QUIT", "KEYDOWN_ESCAPE"} THEN FALSE ELSE running
           /\ effect_toggles' =
                 IF press
                 THEN check_checkbox_click(effect_toggles, event.pos, screen_width).effect_toggles
                 ELSE effect_toggles
           /\ dragging' = IF release THEN FALSE
                          ELSE IF press /\ target = "angle" THEN TRUE ELSE dragging
           /\ dragging_thickness' = IF release THEN FALSE
                                    ELSE IF press /\ target = "thickness" THEN TRUE
                                    ELSE dragging_thickness
           /\ dragging_dash_gap' = IF release THEN FALSE
                                   ELSE IF press /\ target = "dash_gap" THEN TRUE
                                   ELSE dragging_dash_gap
           /\ dragging_dash_speed' = IF release THEN FALSE
                                     ELSE IF press /\ target = "dash_speed" THEN TRUE
                                     ELSE dragging_dash_speed
           /\ dragging_vibrance' = IF release THEN FALSE
                                   ELSE IF press /\ target = "vibrance" THEN TRUE
                                   ELSE dragging_vibrance
           /\ slider_value' = IF target = "angle"
                              THEN update_slider(event.pos[1], screen_width)
                              ELSE slider_value
           /\ last_move' = IF target = "angle"
                           THEN [source |-> "mouse",
                                 requested |-> SliderFraction(event.pos[1], screen_width)]
                           ELSE last_move
           /\ thickness_value' = IF target = "thickness" THEN moved ELSE thickness_value
           /\ dash_gap_value' = IF target = "dash_gap" THEN moved ELSE dash_gap_value
           /\ dash_speed_value' = IF target = "dash_speed" THEN moved ELSE dash_speed_value
           /\ vibrance_value' = IF target = "vibrance" THEN moved ELSE vibrance_value
           /\ button' = IF press THEN (IF button = "up" THEN "down" ELSE "pressed twice")
                        ELSE IF release /\ button = "down" THEN "up"
                        ELSE button
    /\ style' = StyleOf(thickness_value', dash_gap_value', dash_speed_value', vibrance_value')
    /\ UNCHANGED <<tickVars, variant, screen_width, screen_height, traceVars, animVars, path, pc,
                   drawVars, encoder_enabled, device_open, encoder_accumulator,
                   encoder_position_history, history_is_deque, encoder_lock,
                   last_encoder_update, clock, cpc, cb, wpc, ticks_left, memo>>

\* one event of the loop of handle_events of StrippedFiberTest.py
StrippedEvent(event) ==
    /\ variant = "stripped"
    /\ HandleEvent(event)

UINext ==
    \/ \E event \in LaserEvents(screen_width, screen_height) : LaserEvent(event)
    \/ \E event \in Events(screen_width, screen_height) : StrippedEvent(event)

SpecUI == UIInit /\ [][UINext]_vars

\* --------------------------------------------------- claims on the renderer
\* C7: the path's quality tier is a function of the unsigned entry angle
\* only: below 12 degrees GOOD, from 12 to below 22 MARGINAL, else POOR (so
\* 5 -> GOOD, 18 -> MARGINAL, 30 -> POOR); each tier has one fixed colour and
\* intensity (green 1.0, yellow 0.8, orange 0.6), and every segment of the
\* path is drawn with the colour and intensity of that one tier.
C7_TierFromEntryAngle ==
    /\ LightTier(5000) = [light_color |-> <<0, 255, 0>>, intensity |-> SCALE]
    /\ LightTier(18000) = [light_color |-> <<255, 255, 0>>, intensity |-> (8 * SCALE) \div 10]
    /\ LightTier(30000) = [light_color |-> <<255, 165, 0>>, intensity |-> (6 * SCALE) \div 10]
    /\ pc \in {"segments", "bounces", "exit"} =>
          LET entry == get_angle_from_slider(slider_value, variant)
              unsigned == IF entry < 0 THEN -entry ELSE entry
          IN  /\ unsigned < 12000 =>
                    tier = [light_color |-> <<0, 255, 0>>, intensity |-> SCALE]
              /\ (unsigned >= 12000 /\ unsigned < 22000) =>
                    tier = [light_color |-> <<255, 255, 0>>,
                            intensity |-> (8 * SCALE) \div 10]
              /\ unsigned >= 22000 =>
                    tier = [light_color |-> <<255, 165, 0>>,
                            intensity |-> (6 * SCALE) \div 10]
    /\ (pc = "segments" /\ draw_i > 1) =>
          /\ call.base_color = tier.light_color
          /\ call.intensity = tier.intensity

\* a later segment of a ray entering downwards (negative angle) in the
\* marginal band has been drawn
C7_Witness ==
    /\ pc = "segments"
    /\ draw_i > 3
    /\ get_angle_from_slider(slider_value, variant) < 0
    /\ tier.light_color = <<255, 255, 0>>
    /\ call.base_color = <<255, 255, 0>>

\* x, a distance from the start of a segment drawn at cumulative distance
\* cum, lies on one of the candidate dashes of that segment
OnDash(x, beam_length, cum) ==
    \E i \in 0..(NumPatterns(beam_length, Self) - 1) :
        LET dash_start_distance == i * PatternLength(Self) - AnimationOffset(cum, Self)
        IN  dash_start_distance <= x /\ x <= dash_start_distance + DashLength(Self)

\* C8: dash phase continuity. In every segment the start of every stroked
\* dash falls at an absolute path distance congruent to the global dash
\* offset modulo the pattern length (dash + gap), and the absolute distance
\* at the boundary of two consecutive segments is classified dash or gap the
\* same by the computation of either segment, namely by its distance past
\* the global dash offset modulo the pattern length.
C8_DashPhaseContinuity ==
    (pc = "segments" /\ draw_i > 1 /\ effect_toggles.pulsing_segments) =>
        /\ \A k \in 1..Len(dashes) :
              (call.cumulative_distance + dashes[k].start - global_dash_offset)
                  % PatternLength(Self) = 0
        /\ draw_i > 2 =>
              LET prev_length == SegmentLength(path.path_points, draw_i - 2)
                  this_length == SegmentLength(path.path_points, draw_i - 1)
                  prev_cumulative == call.cumulative_distance - prev_length
                  on_dash == (call.cumulative_distance - global_dash_offset)
                                 % PatternLength(Self) <= DashLength(Self)
              IN  /\ OnDash(prev_length, prev_length, prev_cumulative) <=> on_dash
                  /\ OnDash(0, this_length, call.cumulative_distance) <=> on_dash

\* a dash that began in an earlier segment is continued across the boundary
\* into this one, the dash offset being non-zero
C8_Witness ==
    /\ pc = "segments"
    /\ draw_i > 2
    /\ global_dash_offset > 0
    /\ call.cumulative_distance > 0
    /\ \E k \in 1..Len(dashes) : dashes[k].start < 0 /\ dashes[k].from = 0

\* C10: a zero-length segment (two identical consecutive path points) is
\* skipped by the beam renderer: no line or circle draw call is issued for it.
C10_ZeroLengthSkipped ==
    (pc = "segments" /\ draw_i > 1 /\ call.start_pos = call.end_pos) => draws = << >>

C6_SliderInRange ==
    /\ slider_value \in 0..SliderRes
    /\ last_move.source # "none" =>
          slider_value = Max2(0, Min2(SliderRes, last_move.requested))

\* an encoder movement below 0.0 was applied to a slider at 0.0
C6_Witness ==
    /\ last_move.source = "encoder"
    /\ last_move.requested < 0
    /\ slider_value = 0
    /\ dragging = FALSE

\* ------------------------------------------ claims on draw_light_path alone
\* C11: given a path of fewer than two points, draw_light_path returns at
\* once: it strokes no segment, draws no bounce marker and no start or end
\* marker, whatever the bounce lists hold.
C11_DegenerateDrawsNothing ==
    [][(pc = "draw" /\ Len(path.path_points) < 2) =>
          /\ pc' = "flip"
          /\ draws' = << >>
          /\ dashes' = << >>
          /\ call' = NoCall]_vars

\* draw_light_path has returned on a path of one point with a bounce
C11_Witness ==
    /\ pc = "flip"
    /\ Len(path.path_points) = 1
    /\ Len(path.bounce_positions) = 1
    /\ Len(path.bounce_angles) = 1
    /\ draws = << >>

\* ---------------------------------------------- claims on the animation state
\* C12: the animation advances with elapsed wall-clock time and not with the
\* number of frames: two frames rendered at the same elapsed time (the same
\* reading of the clock) have the same accumulated time and the same dash
\* offset.
C12_AnimationFollowsClock ==
    \A a \in memo : \A b \in memo :
        a.clock = b.clock =>
            a.time = b.time /\ a.global_dash_offset = b.global_dash_offset

\* C13: in every frame the animation state is advanced, then the path is
\* computed from the slider value, then that path is rendered, each once:
\* before the computation the frame's path is not yet recorded, the path
\* that is rendered is the one computed in this frame from the current
\* slider value at the current time and dash offset, and no rendering
\* happens before the first computation.
C13_FrameOrder ==
    LET DashOffsetAfter(frames) ==
            frames * ((25 * style.dash_speed_multiplier) \div 10)
    IN
    /\ pc \in {"encoder", "enc_wait", "enc_locked", "dash"} =>
          /\ Cardinality(memo) = time - 1
          /\ global_dash_offset = DashOffsetAfter(time - 1)
    /\ pc \in {"events", "calc"} =>
          /\ Cardinality(memo) = time - 1
          /\ global_dash_offset = DashOffsetAfter(time)
    /\ pc = "draw" =>
          /\ Cardinality(memo) = time
          /\ \E m \in memo :
                /\ m.time = time
                /\ m.global_dash_offset = global_dash_offset
                /\ m.slider_value = slider_value
                /\ m.result = path
          /\ global_dash_offset = DashOffsetAfter(time)
          /\ time = 1 => tier = NoTier
    /\ pc \in {"advance", "join", "exit"} =>
          /\ Cardinality(memo) = time
          /\ global_dash_offset = DashOffsetAfter(time)
          /\ time > 0 => tier = LightTier(CurrentAngle(slider_value, variant))

\* the second frame is about to render the path it computed after the
\* mouse moved the slider in this frame
C13_Witness ==
    /\ pc = "draw"
    /\ time = 2
    /\ \E m \in memo : m.time = 1 /\ m.slider_value # slider_value
    /\ \E m \in memo : m.time = 2 /\ m.result = path
    /\ last_move.source = "mouse"

\* C14: the path on display follows the slider value. The path a frame
\* draws is the one computed in that frame for the current slider value;
\* between two draws the display shows the path and tier of the previous
\* frame, never an older one; every frame that was begun is drawn without
\* the render loop waiting for ever on another thread; and once the slider
\* value changes no more, the display ends up with its path and tier.
C14_DisplayConverges ==
    LET Current == traced_path(slider_value, variant, Geo)
        CurrentTier == LightTier(CurrentAngle(slider_value, variant))
        Drawn == pc \in {"advance", "join", "exit"} /\ time > 0
    IN  /\ [](pc = "draw" => path = Current)
        /\ [](Drawn => path = Current /\ tier = CurrentTier)
        /\ []((pc \in {"encoder", "enc_wait", "enc_locked", "dash", "events", "calc"}
                /\ time > 1) =>
                  \E m \in memo :
                      /\ m.time = time - 1
                      /\ m.result = path
                      /\ tier = LightTier(CurrentAngle(m.slider_value, variant)))
        /\ \A t \in 1..MaxFrames :
              (pc = "encoder" /\ time = t) ~> (pc = "advance" /\ time = t)
        /\ <>[](Drawn /\ path = Current /\ tier = CurrentTier)

\* the last frame has drawn the path of a slider value the encoder changed
\* after the first frame
C14_Witness ==
    /\ pc = "advance"
    /\ time = MaxFrames
    /\ last_move.source = "encoder"
    /\ \E m \in memo : m.time = 1 /\ m.slider_value # slider_value
    /\ tier = LightTier(CurrentAngle(slider_value, variant))

\* ------------------------------------------------- claims on the two threads
\* C15: encoder_accumulator and encoder_position_history are read and
\* written under encoder_lock only: the render thread is inside its block
\* exactly when it holds the lock, the callback likewise, the two are never
\* inside at the same time, and every step that changes one of the two
\* fields is taken by the holder of the lock.
C15_MutualExclusion ==
    /\ [](/\ pc = "enc_locked" <=> encoder_lock = "render"
          /\ cpc = "locked" <=> encoder_lock = "callback"
          /\ ~(pc = "enc_locked" /\ cpc = "locked"))
    /\ [][(\/ encoder_accumulator' # encoder_accumulator
           \/ encoder_position_history' # encoder_position_history) =>
             \/ encoder_lock = "render" /\ pc = "enc_locked" /\ pc' = "dash"
             \/ encoder_lock = "callback" /\ cpc = "locked" /\ cpc' = "idle"]_vars

\* the render thread waits for the lock while the callback is inside its
\* block with a position change to add
C15_Witness ==
    /\ pc = "enc_wait"
    /\ cpc = "locked"
    /\ encoder_lock = "callback"
    /\ cb.change # 0

\* C16: apart from the two fields under the lock, no variable is written by
\* one thread and read or written by another: whatever the render loop reads
\* or writes (the slider value, the animation state, dragging, running,
\* encoder_enabled, last_encoder_update) is changed only by steps of the
\* render loop, never by a step of the worker thread or of the callback.
C16_NoOtherSharedState ==
    [][(\/ slider_value' # slider_value
        \/ time' # time
        \/ global_dash_offset' # global_dash_offset
        \/ dragging' # dragging
        \/ running' # running
        \/ encoder_enabled' # encoder_enabled
        \/ last_encoder_update' # last_encoder_update) =>
          wpc' = wpc /\ cpc' = cpc]_vars

\* ------------------------------------------------ claims on the style values
\* C17: the thickness, dash-gap, dash-speed and vibrance multipliers keep
\* the values __init__ gave them: no frame, event, encoder update or thread
\* step changes them (the critical angle is a module constant).
C17_StyleSetOnce ==
    /\ [](style = InitialStyle(variant))
    /\ [][style' = style]_vars

\* the run has used up its frames, events and encoder changes, the slider
\* has moved, and the style is as constructed
C17_Witness ==
    /\ time = MaxFrames
    /\ pc = "advance"
    /\ events_left = 0
    /\ ticks_left = 0
    /\ slider_value # SliderRes \div 2
    /\ style.thickness_multiplier = (THICKNESS_TENTHS * SCALE) \div 10
    /\ style.vibrance_multiplier = (VIBRANCE_TENTHS * SCALE) \div 10

\* ------------------------------------------------ more claims on the tracer
\* C18: during tracing dx is strictly positive and keeps its initial value,
\* the cosine of the entry angle; a step changes dy by its sign at most and
\* moves the traced x strictly to the right, for every slider value in
\* [0, 1].
C18_DxPositiveAndFixed ==
    /\ [](/\ trace.dx > 0
          /\ trace.dx = Cos(get_angle_from_slider(slider_value, variant)))
    /\ [][trace' # trace =>
             /\ trace'.dx = trace.dx
             /\ trace'.dy \in {trace.dy, 0 - trace.dy}
             /\ trace'.x > trace.x]_vars

\* a trace at the steepest entry angle that has bounced off both walls and
\* goes on to the right
C18_Witness ==
    /\ tpc = "loop"
    /\ slider_value = SliderRes
    /\ Len(trace.bounce_angles) >= 2
    /\ trace.dy < 0
    /\ trace.x > Geo.left * SCALE

\* C19: the mirror reflection keeps the ray in bounds: after every step,
\* bounce steps included, the committed position and every path point have
\* top <= y <= bottom, for every slider value and any number of bounces.
C19_RayInBounds ==
    /\ Geo.top * SCALE <= trace.y
    /\ trace.y <= Geo.bottom * SCALE
    /\ \A i \in 1..Len(trace.path_points) :
          /\ Geo.top <= trace.path_points[i][2]
          /\ trace.path_points[i][2] <= Geo.bottom

\* after three bounces the ray has just come back from the top wall: its
\* position is inside and its path point lies on the wall's pixel row
C19_Witness ==
    /\ Len(trace.bounce_positions) >= 3
    /\ trace.bounce_positions[Len(trace.bounce_positions)][2] = Geo.top * SCALE
    /\ trace.y > Geo.top * SCALE
    /\ LastPoint(trace)[2] = Geo.top
    /\ trace.dy > 0

\* C20: every bounce marker is coloured by the path's own three-tier
\* classification applied to that bounce's incidence angle: the thresholds
\* CRITICAL_ANGLE and CRITICAL_ANGLE + 10 and the colour of each tier are
\* those of the path, whatever tier the path itself was given.
C20_BounceTierAsPath ==
    [][DrawBounceStep =>
          /\ BounceColor(path.bounce_angles[draw_i])
                 = LightTier(path.bounce_angles[draw_i]).light_color
          /\ draws' = DrawBounce(path.bounce_positions[draw_i],
                                 path.bounce_angles[draw_i], draw_i, Self)]_vars

\* C21: every colour handed to a line or circle draw call by the beam renderer
\* is the vibranced form of some colour: each of its channels is an integer
\* in [0, 255] of the form min(255, int(channel * vibrance_multiplier)).
C21_VibranceOnEveryColour ==
    \A k \in 1..Len(draws) :
        \A j \in 1..3 :
            /\ draws[k].color[j] \in 0..255
            /\ \E channel \in 0..255 :
                   draws[k].color[j] = Channel(channel, style.vibrance_multiplier)

\* C22: for a beam of length L > 0 the dashes stroked are exactly the parts of
\* positive length that the periodic dash pattern has in [0, L]: every
\* stroked dash has 0 <= from < to <= L and is the clipped dash of its index,
\* and every index whose dash overlaps the beam with positive length is
\* stroked, the indices below 0 and beyond num_patterns included.
C22_DashesAreThePattern ==
    LET L == BeamLength(call.start_pos, call.end_pos)
        P == PatternLength(Self)
        D == DashLength(Self)
        Start(i) == i * P - AnimationOffset(call.cumulative_distance, Self)
        From(i) == Max2(0, Start(i))
        To(i) == Min2(L, Start(i) + D)
    IN  (pc = "stroked" /\ L > 0) =>
            /\ \A k \in 1..Len(dashes) :
                   /\ 0 <= dashes[k].from
                   /\ dashes[k].from < dashes[k].to
                   /\ dashes[k].to <= L
                   /\ dashes[k].from = From(dashes[k].i)
                   /\ dashes[k].to = To(dashes[k].i)
            /\ \A k, m \in 1..Len(dashes) : k < m => dashes[k].i < dashes[m].i
            /\ \A i \in -2..(L \div P + 6) :
                   From(i) < To(i) => \E k \in 1..Len(dashes) : dashes[k].i = i

\* a beam of several patterns is stroked: the first dash is cut at the start
\* of the beam, the last at its end
C22_Witness ==
    /\ pc = "stroked"
    /\ Len(dashes) >= 3
    /\ dashes[1].start < 0
    /\ dashes[1].from = 0
    /\ dashes[Len(dashes)].to = BeamLength(call.start_pos, call.end_pos)
    /\ dashes[Len(dashes)].i >= BeamLength(call.start_pos, call.end_pos)
                                   \div PatternLength(Self) + 1

C24_BouncesAlternate ==
    LET top == Geo.top * SCALE
        bottom == Geo.bottom * SCALE
        entry == get_angle_from_slider(slider_value, variant)
        n == Len(trace.bounce_positions)
    IN  /\ \A i \in 1..n : trace.bounce_positions[i][2] \in {top, bottom}
        /\ \A i \in 1..(n - 1) :
               trace.bounce_positions[i][2] # trace.bounce_positions[i + 1][2]
        /\ n >= 1 =>
               /\ entry # 0
               /\ trace.bounce_positions[1][2] = IF entry < 0 THEN top ELSE bottom
               /\ trace.bounce_positions[n][2] = IF trace.dy > 0 THEN top ELSE bottom

\* a returned path that bounced bottom, top, bottom
C24_Witness ==
    /\ tpc = "done"
    /\ Len(trace.bounce_positions) >= 3
    /\ get_angle_from_slider(slider_value, variant) > 0
    /\ trace.bounce_positions[1][2] = Geo.bottom * SCALE
    /\ trace.bounce_positions[2][2] = Geo.top * SCALE
    /\ trace.bounce_positions[3][2] = Geo.bottom * SCALE

\* ---------------------------------------------------- claims on the controls
\* C25: in every state reached by any sequence of events 'solid_with_dashes'
\* is enabled only if 'pulsing_segments' is; a click on the sub-effect while
\* the parent is off changes nothing, switching the parent off switches the
\* sub-effect off, a click changes no toggle but the one of the checkbox hit
\* (and the sub-effect, when the parent is switched off), and a press outside
\* every checkbox, like every other event, changes no toggle.
C25_SubEffectNeedsParent ==
    /\ [](effect_toggles.solid_with_dashes => effect_toggles.pulsing_segments)
    /\ [][\A event \in LaserEvents(screen_width, screen_height) :
            LaserEvent(event) =>
              LET hit == IF event.type = "MOUSEBUTTONDOWN" /\ event.button = 1
                         THEN {checkbox_labels[i] : i \in
                                 {j \in 1..Len(checkbox_labels) :
                                    CheckboxHit(j, event.pos, screen_width)}}
                         ELSE {}
                  changed == {k \in DOMAIN effect_toggles :
                                effect_toggles'[k] # effect_toggles[k]}
              IN  /\ Cardinality(hit) <= 1
                  /\ hit = {} => changed = {}
                  /\ (hit = {"solid_with_dashes"} /\ ~effect_toggles.pulsing_segments)
                        => changed = {}
                  /\ (hit = {"solid_with_dashes"} /\ effect_toggles.pulsing_segments)
                        => changed = hit
                  /\ (hit = {"pulsing_segments"} /\ effect_toggles.pulsing_segments)
                        => /\ ~effect_toggles'.pulsing_segments
                           /\ ~effect_toggles'.solid_with_dashes
                           /\ changed \subseteq {"pulsing_segments", "solid_with_dashes"}
                  /\ (hit # {} /\ hit \cap {"pulsing_segments", "solid_with_dashes"} = {})
                        => changed = hit
                  /\ (hit = {"pulsing_segments"} /\ ~effect_toggles.pulsing_segments)
                        => changed = hit]_vars

\* the parent was switched on, the sub-effect was switched on, and the
\* parent was switched off again, which took the sub-effect with it
C25_Witness ==
    /\ variant = "laser"
    /\ events_left = MaxClicks - 3
    /\ button = "pressed twice"
    /\ ~effect_toggles.pulsing_segments
    /\ ~effect_toggles.solid_with_dashes
    /\ effect_toggles.gradient_glow
    /\ effect_toggles.animated_properties
    /\ effect_toggles.laser_core_halo
    /\ effect_toggles.particle_effects
    /\ ~dragging /\ ~dragging_thickness /\ ~dragging_dash_gap
    /\ ~dragging_dash_speed /\ ~dragging_vibrance

\* ------------------------------------------------ more claims on the encoder
\* C26: while the slider is dragged with the mouse, or while the encoder is
\* not enabled, update_slider_from_encoder returns at once: it changes
\* neither slider_value nor encoder_accumulator, it never reaches its locked
\* block, and no encoder movement is applied to the slider during a drag.
C26_NoEncoderMoveWhileDragging ==
    /\ [](pc \in {"enc_wait", "enc_locked"} => (~dragging /\ encoder_enabled))
    /\ [][(EncoderCheck /\ (dragging \/ ~encoder_enabled)) =>
             /\ pc' = "dash"
             /\ slider_value' = slider_value
             /\ encoder_accumulator' = encoder_accumulator
             /\ encoder_lock' = encoder_lock]_vars
    /\ [][(EncoderApply /\ (slider_value' # slider_value
                            \/ encoder_accumulator' # encoder_accumulator)) =>
             (~dragging /\ encoder_enabled)]_vars
    /\ [][(last_move' # last_move /\ last_move'.source = "encoder") => ~dragging]_vars

\* the second frame has passed update_slider_from_encoder during a drag, with
\* encoder ticks waiting in the accumulator
C26_Witness ==
    /\ pc = "dash"
    /\ time = 2
    /\ dragging
    /\ encoder_enabled
    /\ encoder_accumulator # 0
    /\ clock - last_encoder_update >= DEBOUNCE_TICKS

\* C27: encoder ticks are conserved under every interleaving of the callback
\* and the render loop: the sum of the position changes handed to
\* on_encoder_position_change equals the sum of the signed steps consumed by
\* update_slider_from_encoder plus encoder_accumulator (plus the change of a
\* callback that has been called and has not yet left its locked block), and
\* right after a consuming update |encoder_accumulator| < encoder_threshold.
C27_TicksConserved ==
    /\ [](delivered = consumed + encoder_accumulator
                      + (IF cpc \in {"waiting", "locked"} THEN cb.change ELSE 0))
    /\ [][(EncoderApply /\ consumed' # consumed) =>
             /\ Abs(encoder_accumulator') < ENCODER_THRESHOLD
             /\ consumed' - consumed = encoder_accumulator - encoder_accumulator'
             /\ Abs(encoder_accumulator) >= ENCODER_THRESHOLD]_vars
    /\ [][CallbackApply => (encoder_accumulator' = encoder_accumulator + cb.change
                            /\ consumed' = consumed)]_vars

\* three ticks were delivered and all of them consumed, the last by the
\* update of the second frame, 50 ms after the first
C27_Witness ==
    /\ pc = "dash"
    /\ time = 2
    /\ delivered = 3
    /\ consumed = 3
    /\ encoder_accumulator = 0
    /\ last_encoder_update = 1
    /\ slider_value = SliderRes \div 2 + 3

\* C28: as long as every left press is followed by a release before the next
\* press, at most one of the dragging flags is true (none while the button is
\* up); a press that toggles a checkbox sets no flag and moves no slider, a
\* release of the left button clears every flag, and a mouse motion changes
\* no flag and no value but that of the slider whose flag is set. The same
\* holds for the one slider of StrippedFiberTest.py.
C28_OneDragAtATime ==
    /\ [](LET flags == <<dragging, dragging_thickness, dragging_dash_gap,
                         dragging_dash_speed, dragging_vibrance>>
          IN  variant = "laser" =>
                /\ button = "down" => Cardinality({i \in 1..5 : flags[i]}) <= 1
                /\ button = "up" => {i \in 1..5 : flags[i]} = {})
    /\ [][LET flags == <<dragging, dragging_thickness, dragging_dash_gap,
                         dragging_dash_speed, dragging_vibrance>>
              values == <<slider_value, thickness_value, dash_gap_value, dash_speed_value,
                          vibrance_value>>
          IN  \A event \in LaserEvents(screen_width, screen_height) :
                LaserEvent(event) =>
                  /\ (event.type = "MOUSEBUTTONDOWN" /\ effect_toggles' # effect_toggles)
                        => (flags' = flags /\ values' = values)
                  /\ (event.type = "MOUSEBUTTONUP" /\ event.button = 1)
                        => {i \in 1..5 : flags'[i]} = {}
                  /\ event.type = "MOUSEMOTION"
                        => /\ flags' = flags
                           /\ effect_toggles' = effect_toggles
                           /\ \A i \in 1..5 : values'[i] # values[i] => flags[i]]_vars
    /\ [][\A event \in Events(screen_width, screen_height) :
            StrippedEvent(event) =>
              /\ event.type = "MOUSEBUTTONUP" => ~dragging'
              /\ event.type = "MOUSEMOTION"
                    => /\ dragging' = dragging
                       /\ slider_value' # slider_value => dragging]_vars

\* the thickness slider is held and a motion has moved it, and it alone
C28_Witness ==
    /\ variant = "laser"
    /\ button = "down"
    /\ dragging_thickness
    /\ ~dragging /\ ~dragging_dash_gap /\ ~dragging_dash_speed /\ ~dragging_vibrance
    /\ thickness_value = DivR(SliderRes, STYLE_SLIDER_WIDTH)
    /\ dash_gap_value = SliderRes \div 2
    /\ dash_speed_value = SliderRes \div 2
    /\ vibrance_value = SliderRes \div 2
    /\ slider_value = SliderRes \div 2

\* ------------------------------------------------------------------ shutdown
\* time.sleep(0.1) of the keep-alive loop, join(timeout=1.0) and
\* openWaitForAttachment(5000), in milliseconds
KEEPALIVE_SLEEP_MS == 100
JOIN_TIMEOUT_MS == 1000
ATTACH_TIMEOUT_MS == 5000

\* the longest the worker stays where it is once running is False: a pending
\* attachment lasts up to its timeout, the keep-alive loop one sleep, and
\* close() has no bound (-1)
WorkerStay(w) ==
    CASE w = "start" -> ATTACH_TIMEOUT_MS
      [] w = "alive" -> KEEPALIVE_SLEEP_MS
      [] w = "closing" -> 0 - 1
      [] OTHER -> 0

\* a join with no timeout: it returns when the thread has ended
Join_forever ==
    /\ pc = "join"
    /\ wpc = "dead"
    /\ pc' = "exit"
    /\ UNCHANGED <<tickVars, uiVars, inputVars, traceVars, animVars, effect_toggles, style, path, drawVars,
                   frameVars>>

\* if self.encoder_thread.is_alive(): self.encoder_thread.join(timeout=1.0)
\* with its timing: the call returns when the thread has ended, or at the
\* timeout when the thread can still be where it is by then
JoinThread ==
    /\ pc = "join"
    /\ \/ wpc = "dead"
       \/ WorkerStay(wpc) < 0
       \/ WorkerStay(wpc) >= JOIN_TIMEOUT_MS
    /\ pc' = "exit"
    /\ UNCHANGED <<tickVars, uiVars, inputVars, traceVars, animVars, effect_toggles, style, path, drawVars,
                   frameVars>>

ShutdownNext ==
    \/ FrameAdvance
    \/ EncoderCheck
    \/ EncoderAcquire
    \/ EncoderApply
    \/ FrameDash
    \/ \E event \in Events(screen_width, screen_height) : HandleEvent(event)
    \/ EventsDone
    \/ FrameCalc
    \/ FrameDraw
    \/ Cleanup
    \/ JoinThread
    \/ WorkerAttach
    \/ WorkerAttachFail
    \/ WorkerLeave
    \/ WorkerClose
    \/ \E positionChange \in PositionChanges : CallbackStart(positionChange)
    \/ CallbackAcquire
    \/ CallbackApply
    \/ Tick

\* the render thread and the callback go on whenever they can; the worker
\* wakes from its sleep and tests self.running again; the attachment and
\* close() are calls into the device library and owe nothing
ShutdownFairness ==
    /\ WF_vars(FrameAdvance)
    /\ WF_vars(EncoderCheck)
    /\ WF_vars(EncoderAcquire)
    /\ WF_vars(EncoderApply)
    /\ WF_vars(FrameDash)
    /\ WF_vars(EventsDone)
    /\ WF_vars(FrameCalc)
    /\ WF_vars(FrameDraw)
    /\ WF_vars(Cleanup)
    /\ WF_vars(JoinThread)
    /\ WF_vars(CallbackAcquire)
    /\ WF_vars(CallbackApply)
    /\ WF_vars(WorkerLeave)

SpecShutdown == Init /\ [][ShutdownNext]_vars /\ ShutdownFairness

C30_HistoryBounded ==
    Len(encoder_position_history) <= HISTORY_MAXLEN

====
